---- MODULE Spec2Model ----
(***************************************************************************)
(* Model of the advok8s secrets manager: the namespace selectors           *)
(* (name, label, UID, owner), the target-namespace matcher, the sync       *)
(* engine copySecretToNamespace and the reconciliation driver Reconcile.   *)
(*                                                                         *)
(* Strings that the code inspects character by character (names, glob      *)
(* patterns, label values) are sequences of one-character strings; map     *)
(* keys and enumerations, which the code only compares, are TLA+ strings.  *)
(***************************************************************************)
EXTENDS Integers, Sequences, FiniteSets, TLC

VARIABLES
    namespaces,     \* namespace name -> namespace object, or Absent
    secrets,        \* <<namespace, name>> -> secret object, or Absent
    secretCopiers,  \* rule-set name -> SecretCopier object, or Absent
    nextUID,        \* the UID the store gives the next SecretCopier created
    queue,          \* rule-set name -> what asked for the pending reconcile request
                    \* (no entry: no request is pending)
    timers,         \* the rule-sets with a RequeueAfter pending
    lastPass,       \* what the last Reconcile did, until the store changes again
    writer,         \* <<namespace, name>> -> who wrote the secret last: "user",
                    \* "engine", "deleted" once it was removed, "none" before
    events,         \* number of external events so far
    probe           \* selector evaluation: inputs and result

\* ---------------------------------------------------------------------
\* Strings and glob matching (path/filepath.Match on a Unix build)
\* ---------------------------------------------------------------------

\* The characters used by the model, in ASCII order.
Alphabet == <<"!", "*", "-", "/", "?", "[", "\\", "]", "^", "a", "b", "c", "d",
              "e", "k", "m", "s", "t", "u", "x", "y">>

Ord(c) == CHOOSE i \in 1..Len(Alphabet) : Alphabet[i] = c

Separator == "/"

Drop(s, n) == SubSeq(s, n + 1, Len(s))

HasPrefix(s, prefix) ==
    /\ Len(s) >= Len(prefix)
    /\ SubSeq(s, 1, Len(prefix)) = prefix

\* getEsc: one, possibly escaped, character of a character class.
\* Result: [ok, r, rest]; ok = FALSE is ErrBadPattern.
getEsc(chunk) ==
    IF Len(chunk) = 0 \/ chunk[1] = "-" \/ chunk[1] = "]"
    THEN [ok |-> FALSE, r |-> "", rest |-> <<>>]
    ELSE LET c1 == IF chunk[1] = "\\" THEN Drop(chunk, 1) ELSE chunk
         IN  IF Len(c1) = 0 \/ Len(c1) = 1
             THEN [ok |-> FALSE, r |-> "", rest |-> <<>>]
             ELSE [ok |-> TRUE, r |-> c1[1], rest |-> Drop(c1, 1)]

\* The ranges of a character class, after the '[' and the optional '^'.
\* Result: [ok, match, rest]; rest is the pattern after the closing ']'.
RECURSIVE classRanges(_, _, _, _)
classRanges(chunk, r, nrange, match) ==
    IF Len(chunk) > 0 /\ chunk[1] = "]" /\ nrange > 0
    THEN [ok |-> TRUE, match |-> match, rest |-> Drop(chunk, 1)]
    ELSE LET lo == getEsc(chunk)
         IN  IF ~lo.ok
             THEN [ok |-> FALSE, match |-> FALSE, rest |-> <<>>]
             ELSE IF lo.rest[1] = "-"
                  THEN LET hi == getEsc(Drop(lo.rest, 1))
                       IN  IF ~hi.ok
                           THEN [ok |-> FALSE, match |-> FALSE, rest |-> <<>>]
                           ELSE classRanges(hi.rest, r, nrange + 1,
                                    match \/ (Ord(lo.r) <= Ord(r) /\ Ord(r) <= Ord(hi.r)))
                  ELSE classRanges(lo.rest, r, nrange + 1, match \/ lo.r = r)

\* filepath.Match(pattern, name), the error result dropped as the callers
\* drop it: a malformed pattern matches nothing.
RECURSIVE Match(_, _)
Match(pattern, name) ==
    IF Len(pattern) = 0 THEN Len(name) = 0
    ELSE IF pattern[1] = "*"
         THEN \/ Match(Drop(pattern, 1), name)
              \/ /\ Len(name) > 0
                 /\ name[1] # Separator
                 /\ Match(pattern, Drop(name, 1))
    ELSE IF pattern[1] = "?"
         THEN /\ Len(name) > 0
              /\ name[1] # Separator
              /\ Match(Drop(pattern, 1), Drop(name, 1))
    ELSE IF pattern[1] = "["
         THEN /\ Len(name) > 0
              /\ LET negated == Len(pattern) > 1 /\ pattern[2] = "^"
                     cls == classRanges(Drop(pattern, IF negated THEN 2 ELSE 1),
                                        name[1], 0, FALSE)
                 IN  /\ cls.ok
                     /\ cls.match # negated
                     /\ Match(cls.rest, Drop(name, 1))
    ELSE IF pattern[1] = "\\"
         THEN /\ Len(pattern) > 1
              /\ Len(name) > 0
              /\ name[1] = pattern[2]
              /\ Match(Drop(pattern, 2), Drop(name, 1))
    ELSE /\ Len(name) > 0
         /\ name[1] = pattern[1]
         /\ Match(Drop(pattern, 1), Drop(name, 1))

\* ---------------------------------------------------------------------
\* Selectors
\* ---------------------------------------------------------------------

Range(f) == {f[i] : i \in DOMAIN f}

\* globMatchName / globMatchLabel: the closures of the two selectors.
globMatchName(name, items) == \E i \in 1..Len(items) : Match(items[i], name)

globMatchLabel(label, items) == \E i \in 1..Len(items) : Match(items[i], label)

RECURSIVE matchExcludeNames(_)
matchExcludeNames(MatchNames) ==
    IF MatchNames = <<>> THEN <<>>
    ELSE IF HasPrefix(Head(MatchNames), <<"!">>)
         THEN <<Drop(Head(MatchNames), 1)>> \o matchExcludeNames(Tail(MatchNames))
         ELSE matchExcludeNames(Tail(MatchNames))

RECURSIVE matchIncludeNames(_)
matchIncludeNames(MatchNames) ==
    IF MatchNames = <<>> THEN <<>>
    ELSE IF HasPrefix(Head(MatchNames), <<"!">>)
         THEN matchIncludeNames(Tail(MatchNames))
         ELSE <<Head(MatchNames)>> \o matchIncludeNames(Tail(MatchNames))

NameSelectorIsEmpty(s) == Len(s.MatchNames) = 0

\* Variant: a name that matches an include pattern is accepted without the
\* exclude patterns being looked at.
NameSelectorMatchesIncludeWins(s, name) ==
    IF Len(s.MatchNames) = 0 THEN FALSE
    ELSE IF Len(matchIncludeNames(s.MatchNames)) > 0
         THEN globMatchName(name, matchIncludeNames(s.MatchNames))
    ELSE ~globMatchName(name, matchExcludeNames(s.MatchNames))

NameSelectorMatches(s, name) ==
    IF Len(s.MatchNames) = 0 THEN FALSE
    ELSE IF /\ Len(matchIncludeNames(s.MatchNames)) > 0
            /\ ~globMatchName(name, matchIncludeNames(s.MatchNames))
         THEN FALSE
    ELSE IF /\ Len(matchExcludeNames(s.MatchNames)) > 0
            /\ globMatchName(name, matchExcludeNames(s.MatchNames))
         THEN FALSE
    ELSE TRUE

UIDSelectorIsEmpty(s) == Len(s.MatchUids) = 0

\* Variant: the entries of matchUids are glob patterns.
UIDSelectorMatchesByGlob(s, uid) == \E i \in 1..Len(s.MatchUids) : Match(s.MatchUids[i], uid)

UIDSelectorMatches(s, uid) == \E i \in 1..Len(s.MatchUids) : s.MatchUids[i] = uid

OwnerSelectorIsEmpty(s) == Len(s.MatchOwners) = 0

\* Variant: the UID of the owner is not compared.
OwnerSelectorMatchesByName(s, ownerReferences) ==
    \E i \in 1..Len(ownerReferences) : \E j \in 1..Len(s.MatchOwners) :
        /\ s.MatchOwners[j].APIVersion = ownerReferences[i].APIVersion
        /\ s.MatchOwners[j].Kind = ownerReferences[i].Kind
        /\ s.MatchOwners[j].Name = ownerReferences[i].Name

OwnerSelectorMatches(s, ownerReferences) ==
    \E i \in 1..Len(ownerReferences) : \E j \in 1..Len(s.MatchOwners) :
        /\ s.MatchOwners[j].APIVersion = ownerReferences[i].APIVersion
        /\ s.MatchOwners[j].Kind = ownerReferences[i].Kind
        /\ s.MatchOwners[j].Name = ownerReferences[i].Name
        /\ s.MatchOwners[j].UID = ownerReferences[i].UID

LabelSelectorIsEmpty(s) ==
    Cardinality(DOMAIN s.MatchLabels) = 0 /\ Len(s.MatchExpressions) = 0

\* Variant: In and NotIn compare the label value with the values for
\* equality instead of glob-matching it.
matchExpressionPassesByEquality(matchExpression, labels) ==
    IF matchExpression.Key \in DOMAIN labels
    THEN CASE matchExpression.Operator = "In" ->
                  \E i \in 1..Len(matchExpression.Values) :
                      matchExpression.Values[i] = labels[matchExpression.Key]
           [] matchExpression.Operator = "NotIn" ->
                  \A i \in 1..Len(matchExpression.Values) :
                      matchExpression.Values[i] # labels[matchExpression.Key]
           [] matchExpression.Operator = "Exists" -> TRUE
           [] matchExpression.Operator = "DoesNotExist" -> FALSE
           [] OTHER -> TRUE
    ELSE CASE matchExpression.Operator = "In" -> FALSE
           [] matchExpression.Operator = "NotIn" -> TRUE
           [] matchExpression.Operator = "Exists" -> FALSE
           [] matchExpression.Operator = "DoesNotExist" -> TRUE
           [] OTHER -> TRUE

\* Variant: an operator that no case of the switch names fails the
\* expression.
matchExpressionPassesKnownOnly(matchExpression, labels) ==
    IF matchExpression.Key \in DOMAIN labels
    THEN CASE matchExpression.Operator = "In" ->
                  globMatchLabel(labels[matchExpression.Key], matchExpression.Values)
           [] matchExpression.Operator = "NotIn" ->
                  ~globMatchLabel(labels[matchExpression.Key], matchExpression.Values)
           [] matchExpression.Operator = "Exists" -> TRUE
           [] matchExpression.Operator = "DoesNotExist" -> FALSE
           [] OTHER -> FALSE
    ELSE CASE matchExpression.Operator = "In" -> FALSE
           [] matchExpression.Operator = "NotIn" -> TRUE
           [] matchExpression.Operator = "Exists" -> FALSE
           [] matchExpression.Operator = "DoesNotExist" -> TRUE
           [] OTHER -> FALSE

\* One matchExpression of LabelSelector.Matches: FALSE where the loop body
\* returns false, TRUE where it goes on to the next expression (an operator
\* that no case of the switch names goes on).
matchExpressionPasses(matchExpression, labels) ==
    IF matchExpression.Key \in DOMAIN labels
    THEN CASE matchExpression.Operator = "In" ->
                  globMatchLabel(labels[matchExpression.Key], matchExpression.Values)
           [] matchExpression.Operator = "NotIn" ->
                  ~globMatchLabel(labels[matchExpression.Key], matchExpression.Values)
           [] matchExpression.Operator = "Exists" -> TRUE
           [] matchExpression.Operator = "DoesNotExist" -> FALSE
           [] OTHER -> TRUE
    ELSE CASE matchExpression.Operator = "In" -> FALSE
           [] matchExpression.Operator = "NotIn" -> TRUE
           [] matchExpression.Operator = "Exists" -> FALSE
           [] matchExpression.Operator = "DoesNotExist" -> TRUE
           [] OTHER -> TRUE

\* Variant: without the test for the empty selector.
LabelSelectorMatchesVacuously(s, labels) ==
    IF \E key \in DOMAIN s.MatchLabels :
           key \notin DOMAIN labels \/ labels[key] # s.MatchLabels[key]
    THEN FALSE
    ELSE \A i \in 1..Len(s.MatchExpressions) :
             matchExpressionPasses(s.MatchExpressions[i], labels)

LabelSelectorMatches(s, labels) ==
    IF Cardinality(DOMAIN s.MatchLabels) = 0 /\ Len(s.MatchExpressions) = 0
    THEN FALSE
    ELSE IF \E key \in DOMAIN s.MatchLabels :
                key \notin DOMAIN labels \/ labels[key] # s.MatchLabels[key]
         THEN FALSE
    ELSE \A i \in 1..Len(s.MatchExpressions) :
             matchExpressionPasses(s.MatchExpressions[i], labels)

\* The checks of TargetNamespaces.Matches after the one of the name.
otherSelectorsMatch(s, namespace) ==
    IF /\ ~UIDSelectorIsEmpty(s.UIDSelector)
       /\ ~UIDSelectorMatches(s.UIDSelector, namespace.UID)
    THEN FALSE
    ELSE IF /\ ~OwnerSelectorIsEmpty(s.OwnerSelector)
            /\ ~OwnerSelectorMatches(s.OwnerSelector, namespace.OwnerReferences)
         THEN FALSE
    ELSE IF /\ ~LabelSelectorIsEmpty(s.LabelSelector)
            /\ ~LabelSelectorMatches(s.LabelSelector, namespace.Labels)
         THEN FALSE
    ELSE TRUE

\* Variant: an empty name selector lets every name pass.
TargetNamespacesMatchesNoDefault(s, namespace) ==
    IF /\ ~NameSelectorIsEmpty(s.NameSelector)
       /\ ~NameSelectorMatches(s.NameSelector, namespace.Name)
    THEN FALSE
    ELSE otherSelectorsMatch(s, namespace)

\* Variant: the default exclusion is applied next to a configured name
\* selector too.
TargetNamespacesMatchesAlwaysDeny(s, namespace) ==
    IF ~NameSelectorMatches([MatchNames |-> << <<"!", "k", "u", "b", "e", "-", "*">> >>],
                            namespace.Name)
    THEN FALSE
    ELSE IF /\ ~NameSelectorIsEmpty(s.NameSelector)
            /\ ~NameSelectorMatches(s.NameSelector, namespace.Name)
         THEN FALSE
    ELSE otherSelectorsMatch(s, namespace)

\* Variant: a namespace that passes the name check and whose UID is listed
\* is accepted without the owner and label selectors being looked at.
TargetNamespacesMatchesUIDFirst(s, namespace) ==
    IF /\ NameSelectorIsEmpty(s.NameSelector)
       /\ ~NameSelectorMatches([MatchNames |-> << <<"!", "k", "u", "b", "e", "-", "*">> >>],
                               namespace.Name)
    THEN FALSE
    ELSE IF /\ ~NameSelectorIsEmpty(s.NameSelector)
            /\ ~NameSelectorMatches(s.NameSelector, namespace.Name)
         THEN FALSE
    ELSE IF /\ ~UIDSelectorIsEmpty(s.UIDSelector)
            /\ UIDSelectorMatches(s.UIDSelector, namespace.UID)
         THEN TRUE
    ELSE otherSelectorsMatch(s, namespace)

\* TargetNamespaces.Matches; namespace is [Name, UID, OwnerReferences, Labels].
TargetNamespacesMatches(s, namespace) ==
    IF /\ NameSelectorIsEmpty(s.NameSelector)
       /\ ~NameSelectorMatches([MatchNames |-> << <<"!", "k", "u", "b", "e", "-", "*">> >>],
                               namespace.Name)
    THEN FALSE
    ELSE IF /\ ~NameSelectorIsEmpty(s.NameSelector)
            /\ ~NameSelectorMatches(s.NameSelector, namespace.Name)
         THEN FALSE
    ELSE IF /\ ~UIDSelectorIsEmpty(s.UIDSelector)
            /\ ~UIDSelectorMatches(s.UIDSelector, namespace.UID)
         THEN FALSE
    ELSE IF /\ ~OwnerSelectorIsEmpty(s.OwnerSelector)
            /\ ~OwnerSelectorMatches(s.OwnerSelector, namespace.OwnerReferences)
         THEN FALSE
    ELSE IF /\ ~LabelSelectorIsEmpty(s.LabelSelector)
            /\ ~LabelSelectorMatches(s.LabelSelector, namespace.Labels)
         THEN FALSE
    ELSE TRUE

NoProbe == [fn |-> "none", done |-> TRUE, out |-> FALSE]

\* ---------------------------------------------------------------------
\* Objects of the store
\* ---------------------------------------------------------------------

Absent == [Exists |-> FALSE]

NsS == <<"s">>
NsD == <<"d">>
NsE == <<"e">>
NsNames == {NsS, NsD, NsE}

\* List returns the namespaces in name order.
NsOrder == <<NsD, NsE, NsS>>

SecX == <<"x">>
SecY == <<"y">>
SecretNames == {SecX, SecY}

Keys == NsNames \X SecretNames

CopierC == <<"c">>
CopierOther == <<"e">>
CopierNames == {CopierC}

\* The rule-sets in the order List returns them.
CopierOrder == <<CopierC>>

AnnCopier == "secrets-manager.advok8s.io/secret-copier"
AnnSource == "secrets-manager.advok8s.io/secret-name"

ReclaimDelete == "Delete"
ReclaimRetain == "Retain"

NamespaceTerminating == "Terminating"
NamespaceActive == "Active"

\* A Go map: nil, or a map value m (which may have no entries).
NilMap == [nil |-> TRUE, m |-> <<>>]

MakeMap(f) == [nil |-> FALSE, m |-> f]

\* What the store gives back for a map it was sent: a map without entries is
\* left out of the stored object and reads back as nil.
StoredMap(a) == IF a.nil \/ DOMAIN a.m = {} THEN NilMap ELSE a

NamespaceLabels(n) == IF n = NsD THEN [k \in {"env"} |-> <<"a">>] ELSE <<>>

NamespaceObject(n, phase) ==
    [Exists |-> TRUE, Name |-> n, UID |-> <<"u">> \o n, OwnerReferences |-> <<>>,
     Labels |-> NamespaceLabels(n), Phase |-> phase]

EmptyTargetNamespaces ==
    [NameSelector |-> [MatchNames |-> <<>>],
     UIDSelector |-> [MatchUids |-> <<>>],
     OwnerSelector |-> [MatchOwners |-> <<>>],
     LabelSelector |-> [MatchLabels |-> <<>>, MatchExpressions |-> <<>>]]

\* s/x to the namespace named d, under the source's name, owned by the rule-set.
RuleA ==
    [SourceSecret |-> [Name |-> SecX, Namespace |-> NsS],
     TargetNamespaces |-> [EmptyTargetNamespaces EXCEPT !.NameSelector = [MatchNames |-> <<NsD>>]],
     TargetSecret |-> [Name |-> <<>>, Labels |-> <<>>],
     ReclaimPolicy |-> ReclaimDelete]

\* s/x to every namespace the default selector matches (d, e and the source
\* namespace), as y, with a label that overrides the source's.
RuleB ==
    [SourceSecret |-> [Name |-> SecX, Namespace |-> NsS],
     TargetNamespaces |-> EmptyTargetNamespaces,
     TargetSecret |-> [Name |-> SecY, Labels |-> [k \in {"app"} |-> "b"]],
     ReclaimPolicy |-> ReclaimRetain]

\* s/y to the namespaces labelled env=a, as x: the target of RuleA in d.
RuleC ==
    [SourceSecret |-> [Name |-> SecY, Namespace |-> NsS],
     TargetNamespaces |-> [EmptyTargetNamespaces EXCEPT
         !.LabelSelector = [MatchLabels |-> [k \in {"env"} |-> <<"a">>],
                            MatchExpressions |-> <<>>]],
     TargetSecret |-> [Name |-> SecX, Labels |-> <<>>],
     ReclaimPolicy |-> ReclaimRetain]

\* RuleA with the other reclaim policy.
RuleD == [RuleA EXCEPT !.ReclaimPolicy = ReclaimRetain]

RuleSets == { <<>>, <<RuleA>>, <<RuleB>>, <<RuleA, RuleB>>, <<RuleC, RuleA>>, <<RuleD>> }

\* A sync period is a duration: negative, zero or positive.
SyncPeriods == {-60, 0, 60}

\* What a user asks for: any of the rule-sets with no sync period or a
\* positive one, and the single rule with a negative one.
CopierSpecs ==
    [Rules : RuleSets, SyncPeriod : SyncPeriods \cap (0..60)] \cup
    [Rules : {<<RuleA>>}, SyncPeriod : SyncPeriods \ (0..60)]

SecretCopierObject(name, uid, spec) ==
    [Exists |-> TRUE, Name |-> name, UID |-> uid,
     APIVersion |-> "secrets-manager.advok8s.io/v1beta1", Kind |-> "SecretCopier",
     Spec |-> spec]

DataOne == MakeMap([k \in {"data-key1"} |-> "1"])
DataTwo == MakeMap([k \in {"data-key1"} |-> "2"])
LabelsApp == MakeMap([k \in {"app"} |-> "a"])

\* What a user writes as the type, data and labels of a secret.
UserContents ==
    { [Type |-> "Opaque", Data |-> DataOne, Labels |-> NilMap],
      [Type |-> "Opaque", Data |-> DataOne, Labels |-> LabelsApp],
      [Type |-> "Opaque", Data |-> DataTwo, Labels |-> LabelsApp],
      [Type |-> "kubernetes.io/tls", Data |-> DataOne, Labels |-> LabelsApp] }

\* The annotations a user gives a secret: none, or ownership annotations
\* that name another rule-set or another source secret.
UserAnnotations ==
    { <<>>,
      (AnnCopier :> CopierOther) @@ (AnnSource :> (NsS \o <<"/">> \o SecX)),
      (AnnCopier :> CopierC) @@ (AnnSource :> (NsD \o <<"/">> \o SecX)) }

SecretObject(content, annotations, ownerReferences) ==
    [Exists |-> TRUE, Type |-> content.Type, Data |-> content.Data,
     Labels |-> content.Labels, Annotations |-> annotations,
     OwnerReferences |-> ownerReferences]

\* ---------------------------------------------------------------------
\* The sync engine
\* ---------------------------------------------------------------------

\* m[key] of a Go map of strings: the empty string when the key is missing.
Lookup(m, key) == IF key \in DOMAIN m THEN m[key] ELSE <<>>

\* Variant: the two loops in the other order, the source's labels last.
EffectiveLabelsSourceLast(sourceLabels, ruleLabels) ==
    [key \in DOMAIN sourceLabels.m \cup DOMAIN ruleLabels |->
        IF key \in DOMAIN sourceLabels.m THEN sourceLabels.m[key] ELSE ruleLabels[key]]

\* The loops that copy the source's labels and then the rule's labels into
\* targetSecretLabels.
EffectiveLabels(sourceLabels, ruleLabels) ==
    [key \in DOMAIN sourceLabels.m \cup DOMAIN ruleLabels |->
        IF key \in DOMAIN ruleLabels THEN ruleLabels[key] ELSE sourceLabels.m[key]]

\* Variant: only the annotation that names the rule-set is compared.
targetSecretManagedByCopierName(secretCopier, rule, targetSecret) ==
    Lookup(targetSecret.Annotations, AnnCopier) = secretCopier.Name

\* Variant: a secret is managed only if, besides the annotations, one of its
\* owner references has the UID of the rule-set.
targetSecretManagedByOwnerUID(secretCopier, rule, targetSecret) ==
    /\ Lookup(targetSecret.Annotations, AnnCopier) = secretCopier.Name
    /\ Lookup(targetSecret.Annotations, AnnSource) =
           rule.SourceSecret.Namespace \o <<"/">> \o rule.SourceSecret.Name
    /\ \E i \in 1..Len(targetSecret.OwnerReferences) :
           targetSecret.OwnerReferences[i].UID = secretCopier.UID

\* Variant: of the source annotation, the namespace alone is compared.
targetSecretManagedBySourceNamespace(secretCopier, rule, targetSecret) ==
    LET source == Lookup(targetSecret.Annotations, AnnSource)
        prefix == rule.SourceSecret.Namespace \o <<"/">>
    IN  /\ Lookup(targetSecret.Annotations, AnnCopier) = secretCopier.Name
        /\ Len(source) >= Len(prefix)
        /\ SubSeq(source, 1, Len(prefix)) = prefix

targetSecretManagedBySecretCopier(secretCopier, rule, targetSecret) ==
    IF Lookup(targetSecret.Annotations, AnnCopier) # secretCopier.Name
    THEN FALSE
    ELSE IF Lookup(targetSecret.Annotations, AnnSource) #
                rule.SourceSecret.Namespace \o <<"/">> \o rule.SourceSecret.Name
         THEN FALSE
    ELSE TRUE

\* Variant: the entries alone are compared, a nil map as one without entries.
mapStringBytesEqualByEntries(a, b) == a.m = b.m

mapStringBytesEqual(a, b) ==
    IF a.nil /\ b.nil THEN TRUE
    ELSE IF a.nil \/ b.nil THEN FALSE
    ELSE IF Cardinality(DOMAIN a.m) # Cardinality(DOMAIN b.m) THEN FALSE
    ELSE \A key \in DOMAIN a.m : key \in DOMAIN b.m /\ a.m[key] = b.m[key]

mapStringStringEqual(a, b) ==
    IF a.nil /\ b.nil THEN TRUE
    ELSE IF a.nil \/ b.nil THEN FALSE
    ELSE IF Cardinality(DOMAIN a.m) # Cardinality(DOMAIN b.m) THEN FALSE
    ELSE \A key \in DOMAIN a.m : key \in DOMAIN b.m /\ a.m[key] = b.m[key]

\* The label comparison is between the source's labels and the labels
\* computed for the target, as in the code; the target's own labels are not
\* read.
sourceSecretHasBeenUpdated(rule, sourceSecret, targetSecret) ==
    IF sourceSecret.Type # targetSecret.Type THEN TRUE
    ELSE IF ~mapStringBytesEqual(sourceSecret.Data, targetSecret.Data) THEN TRUE
    ELSE IF ~mapStringStringEqual(
                sourceSecret.Labels,
                MakeMap(EffectiveLabels(sourceSecret.Labels, rule.TargetSecret.Labels)))
         THEN TRUE
    ELSE FALSE

\* Variant: the copy always gets the name of the source secret.
TargetSecretNameOfSource(rule) == rule.SourceSecret.Name

TargetSecretName(rule) ==
    IF rule.TargetSecret.Name = <<>> THEN rule.SourceSecret.Name ELSE rule.TargetSecret.Name

\* Variant: the owner reference is added whatever the reclaim policy.
OwnerReferencesAlways(secretCopier, rule) ==
    << [APIVersion |-> secretCopier.APIVersion, Kind |-> secretCopier.Kind,
        Name |-> secretCopier.Name, UID |-> secretCopier.UID,
        Controller |-> TRUE, BlockOwnerDeletion |-> TRUE] >>

OwnerReferencesFor(secretCopier, rule) ==
    IF rule.ReclaimPolicy = ReclaimDelete
    THEN << [APIVersion |-> secretCopier.APIVersion, Kind |-> secretCopier.Kind,
             Name |-> secretCopier.Name, UID |-> secretCopier.UID,
             Controller |-> TRUE, BlockOwnerDeletion |-> TRUE] >>
    ELSE <<>>

NoFault == "none"

\* What one call of copySecretToNamespace did: the secrets after it and a
\* record of the call (the source and the target as read, the target after).
SyncResult(sec, rule, targetNamespace, op, after) ==
    [secrets |-> [sec EXCEPT ![<<targetNamespace, TargetSecretName(rule)>>] = after],
     sync |-> [op |-> op, namespace |-> targetNamespace, name |-> TargetSecretName(rule),
               source |-> sec[<<rule.SourceSecret.Namespace, rule.SourceSecret.Name>>],
               before |-> sec[<<targetNamespace, TargetSecretName(rule)>>],
               after |-> after]]

\* copySecretToNamespace from the fetch of the source secret on, on the
\* secrets sec of the store. fault names the call to the store that fails
\* with an error other than NotFound: "get-source", "get-target", "write",
\* or none.
copyFromSource(sec, secretCopier, rule, targetNamespace, fault) ==
    LET sourceSecret == rule.SourceSecret
        targetSecretName == TargetSecretName(rule)
        sourceKey == <<sourceSecret.Namespace, sourceSecret.Name>>
        targetKey == <<targetNamespace, targetSecretName>>
        secret == sec[sourceKey]
        targetSecret == sec[targetKey]
        targetSecretLabels ==
            MakeMap(EffectiveLabels(secret.Labels, rule.TargetSecret.Labels))
        created ==
            [Exists |-> TRUE, Type |-> secret.Type, Data |-> StoredMap(secret.Data),
             Labels |-> StoredMap(targetSecretLabels),
             Annotations |->
                 (AnnCopier :> secretCopier.Name) @@
                 (AnnSource :> (sourceSecret.Namespace \o <<"/">> \o sourceSecret.Name)),
             OwnerReferences |-> OwnerReferencesFor(secretCopier, rule)]
        updated ==
            [targetSecret EXCEPT !.Labels = StoredMap(targetSecretLabels),
                                 !.Data = StoredMap(secret.Data),
                                 !.Type = secret.Type]
        Done(op, after) == SyncResult(sec, rule, targetNamespace, op, after)
    IN  IF fault = "get-source" THEN Done("get-source-failed", targetSecret)
        ELSE IF ~secret.Exists THEN Done("no-source", targetSecret)
        ELSE IF fault = "get-target" THEN Done("get-target-failed", targetSecret)
        ELSE IF ~targetSecret.Exists
             THEN IF fault = "write"
                  THEN Done("create-failed", targetSecret)
                  ELSE Done("create", created)
        ELSE IF ~targetSecretManagedBySecretCopier(secretCopier, rule, targetSecret)
             THEN Done("not-managed", targetSecret)
        ELSE IF sourceSecretHasBeenUpdated(rule, secret, targetSecret)
             THEN IF fault = "write"
                  THEN Done("update-failed", targetSecret)
                  ELSE Done("update", updated)
        ELSE Done("current", targetSecret)

\* Variant: without the check of the target namespace against the source's.
copySecretToAnyNamespace(sec, secretCopier, rule, targetNamespace, fault) ==
    copyFromSource(sec, secretCopier, rule, targetNamespace, fault)

\* Variant: a copy that the rule owns is removed when the source is gone.
copyOrRemoveStale(sec, secretCopier, rule, targetNamespace, fault) ==
    LET targetSecret == sec[<<targetNamespace, TargetSecretName(rule)>>]
    IN  IF rule.SourceSecret.Namespace = targetNamespace
        THEN SyncResult(sec, rule, targetNamespace, "same-namespace", targetSecret)
        ELSE IF /\ ~sec[<<rule.SourceSecret.Namespace, rule.SourceSecret.Name>>].Exists
                /\ targetSecret.Exists
                /\ targetSecretManagedBySecretCopier(secretCopier, rule, targetSecret)
             THEN SyncResult(sec, rule, targetNamespace, "no-source", Absent)
        ELSE copyFromSource(sec, secretCopier, rule, targetNamespace, fault)

\* Variant: without the return for a source secret that is not found, the
\* copy is made from the empty secret that Get left.
copyFromBlankSource(sec, secretCopier, rule, targetNamespace, fault) ==
    LET sourceKey == <<rule.SourceSecret.Namespace, rule.SourceSecret.Name>>
        blank == SecretObject([Type |-> "", Data |-> NilMap, Labels |-> NilMap], <<>>, <<>>)
        r == copyFromSource([sec EXCEPT ![sourceKey] = blank], secretCopier, rule,
                            targetNamespace, fault)
    IN  IF rule.SourceSecret.Namespace = targetNamespace
        THEN SyncResult(sec, rule, targetNamespace, "same-namespace",
                        sec[<<targetNamespace, TargetSecretName(rule)>>])
        ELSE IF sec[sourceKey].Exists \/ fault = "get-source"
             THEN copyFromSource(sec, secretCopier, rule, targetNamespace, fault)
        ELSE SyncResult(sec, rule, targetNamespace, r.sync.op, r.sync.after)

\* Variant: an update writes the owner references the rule asks for now.
copyResettingOwners(sec, secretCopier, rule, targetNamespace, fault) ==
    LET r == copyFromSource(sec, secretCopier, rule, targetNamespace, fault)
    IN  IF rule.SourceSecret.Namespace = targetNamespace
        THEN SyncResult(sec, rule, targetNamespace, "same-namespace",
                        sec[<<targetNamespace, TargetSecretName(rule)>>])
        ELSE IF r.sync.op = "update"
             THEN SyncResult(sec, rule, targetNamespace, "update",
                             [r.sync.after EXCEPT
                                 !.OwnerReferences = OwnerReferencesFor(secretCopier, rule)])
        ELSE r

\* copySecretToNamespace: nothing is done for the namespace of the source.
copySecretToNamespace(sec, secretCopier, rule, targetNamespace, fault) ==
    IF rule.SourceSecret.Namespace = targetNamespace
    THEN SyncResult(sec, rule, targetNamespace, "same-namespace",
                    sec[<<targetNamespace, TargetSecretName(rule)>>])
    ELSE copyFromSource(sec, secretCopier, rule, targetNamespace, fault)

\* ---------------------------------------------------------------------
\* The reconciliation driver
\* ---------------------------------------------------------------------

\* The calls to the store that fail in one pass: the namespace listing, or
\* the call `kind` of the at-th copySecretToNamespace of the pass, or (at 0)
\* the fetch of the rule-set.
NoFaults == [list |-> FALSE, at |-> 0, kind |-> NoFault]

\* One call to the store fails in the pass, with an error other than
\* NotFound.
FaultPlans ==
    { [list |-> TRUE, at |-> 0, kind |-> NoFault],
      [list |-> FALSE, at |-> 0, kind |-> "get-copier"] } \cup
    [list : {FALSE}, at : {1, 2, 3}, kind : {"get-source", "get-target", "write"}]

\* Variant: every listed namespace, whatever its phase.
listedNamespaces(nss) ==
    SelectSeq([i \in 1..Len(NsOrder) |-> nss[NsOrder[i]]], LAMBDA namespace : namespace.Exists)

activeNamespaces(nss) ==
    SelectSeq([i \in 1..Len(NsOrder) |-> nss[NsOrder[i]]],
              LAMBDA namespace : namespace.Exists /\ namespace.Phase # NamespaceTerminating)

targetNamespaces(rule, active) ==
    LET matched == SelectSeq(active, LAMBDA namespace :
                       /\ namespace.Name # rule.SourceSecret.Namespace
                       /\ TargetNamespacesMatches(rule.TargetNamespaces, namespace))
    IN  [i \in 1..Len(matched) |-> matched[i].Name]

\* The element of a set of one element. The loops below go on with the
\* result r of a call as TheOne({... r ... : r \in {call}}): the call is
\* worked out once, as in the code.
TheOne(S) == CHOOSE x \in S : TRUE

\* Variant: the loop over the target namespaces of a rule ends at the first
\* call that created or updated nothing because of an error.
RECURSIVE copyToTargetNamespacesUntilFailure(_, _, _, _, _)
copyToTargetNamespacesUntilFailure(acc, secretCopier, ruleIndex, names, plan) ==
    IF names = <<>> THEN acc
    ELSE LET rule == secretCopier.Spec.Rules[ruleIndex]
             targetNamespace == Head(names)
             fault == IF plan.at = Len(acc.syncs) + 1 THEN plan.kind ELSE NoFault
         IN  TheOne({IF r.sync.op \in {"get-source-failed", "get-target-failed",
                                       "create-failed", "update-failed"}
                     THEN [secrets |-> r.secrets,
                           syncs |-> Append(acc.syncs, [rule |-> ruleIndex] @@ r.sync)]
                     ELSE copyToTargetNamespacesUntilFailure(
                              [secrets |-> r.secrets,
                               syncs |-> Append(acc.syncs, [rule |-> ruleIndex] @@ r.sync)],
                              secretCopier, ruleIndex, Tail(names), plan) :
                     r \in {copySecretToNamespace(acc.secrets, secretCopier, rule,
                                                  targetNamespace, fault)}})

\* Variant: a call that ended with an error is made again for the same
\* namespace before the loop goes on.
RECURSIVE copyToTargetNamespacesRetrying(_, _, _, _, _)
copyToTargetNamespacesRetrying(acc, secretCopier, ruleIndex, names, plan) ==
    IF names = <<>> THEN acc
    ELSE LET rule == secretCopier.Spec.Rules[ruleIndex]
             targetNamespace == Head(names)
             fault == IF plan.at = Len(acc.syncs) + 1 THEN plan.kind ELSE NoFault
         IN  TheOne({copyToTargetNamespacesRetrying(
                         [secrets |-> r.secrets,
                          syncs |-> Append(acc.syncs, [rule |-> ruleIndex] @@ r.sync)],
                         secretCopier, ruleIndex,
                         IF r.sync.op \in {"get-source-failed", "get-target-failed",
                                           "create-failed", "update-failed"}
                         THEN names ELSE Tail(names), plan) :
                     r \in {copySecretToNamespace(acc.secrets, secretCopier, rule,
                                                  targetNamespace, fault)}})

\* The inner loop of Reconcile over the target namespaces of one rule.
\* acc is [secrets, syncs]: the secrets so far and the record of each call.
RECURSIVE copyToTargetNamespaces(_, _, _, _, _)
copyToTargetNamespaces(acc, secretCopier, ruleIndex, names, plan) ==
    IF names = <<>> THEN acc
    ELSE LET rule == secretCopier.Spec.Rules[ruleIndex]
             targetNamespace == Head(names)
             fault == IF plan.at = Len(acc.syncs) + 1 THEN plan.kind ELSE NoFault
         IN  IF targetNamespace # rule.SourceSecret.Namespace
             THEN TheOne({copyToTargetNamespaces(
                              [secrets |-> r.secrets,
                               syncs |-> Append(acc.syncs, [rule |-> ruleIndex] @@ r.sync)],
                              secretCopier, ruleIndex, Tail(names), plan) :
                          r \in {copySecretToNamespace(acc.secrets, secretCopier, rule,
                                                       targetNamespace, fault)}})
             ELSE copyToTargetNamespaces(acc, secretCopier, ruleIndex, Tail(names), plan)

\* The outer loop of Reconcile over the rules, from rule ruleIndex on.
RECURSIVE processRules(_, _, _, _, _)
processRules(acc, secretCopier, active, ruleIndex, plan) ==
    IF ruleIndex > Len(secretCopier.Spec.Rules) THEN acc
    ELSE TheOne({processRules(done, secretCopier, active, ruleIndex + 1, plan) :
                     done \in {TheOne({copyToTargetNamespaces(acc, secretCopier, ruleIndex,
                                                              names, plan) :
                                  names \in {targetNamespaces(
                                                secretCopier.Spec.Rules[ruleIndex], active)}})}})

\* Variant: a sync period that is not positive is taken as the default.
RequeueAfterDefaulted(secretCopier) ==
    IF secretCopier.Spec.SyncPeriod > 0 THEN secretCopier.Spec.SyncPeriod ELSE 60

\* Variant: no pass asks to be run again.
RequeueNever(secretCopier) == 0

\* The result of a pass that processed its rules: requeue after the sync
\* period when that is positive, no requeue otherwise.
RequeueAfter(secretCopier) ==
    IF secretCopier.Spec.SyncPeriod > 0 THEN secretCopier.Spec.SyncPeriod ELSE 0

\* The record of a pass: the request, how the pass ended, the rule-set as
\* read, the calls of copySecretToNamespace, and the result returned. why and
\* writers are filled in by the Reconcile action: what asked for the pass,
\* and who had written each secret last when the pass began.
PassRecord(name, outcome, secretCopier, syncs, requeueAfter, err) ==
    [name |-> name, outcome |-> outcome, copier |-> secretCopier, syncs |-> syncs,
     RequeueAfter |-> requeueAfter, err |-> err, why |-> {}, writers |-> <<>>]

NoPass == PassRecord(<<>>, "none", Absent, <<>>, 0, FALSE)

\* Variant: a failure of the namespace listing is logged and the pass goes
\* on with the empty list.
ReconcileResultListIgnored(nss, sec, copiers, name, plan) ==
    LET secretCopier == copiers[name]
        done == processRules([secrets |-> sec, syncs |-> <<>>], secretCopier,
                             IF plan.list THEN <<>> ELSE activeNamespaces(nss), 1, plan)
    IN  IF plan.at = 0 /\ plan.kind = "get-copier"
        THEN [secrets |-> sec, pass |-> PassRecord(name, "get-failed", Absent, <<>>, 0, TRUE)]
        ELSE IF ~secretCopier.Exists
        THEN [secrets |-> sec, pass |-> PassRecord(name, "deleted", Absent, <<>>, 0, FALSE)]
        ELSE IF Len(secretCopier.Spec.Rules) = 0
        THEN [secrets |-> sec, pass |-> PassRecord(name, "no-rules", secretCopier, <<>>, 0, FALSE)]
        ELSE [secrets |-> done.secrets,
              pass |-> PassRecord(name, "processed", secretCopier, done.syncs,
                          RequeueAfter(secretCopier), FALSE)]

\* One call of Reconcile for the rule-set `name`: the secrets after it and
\* the record of the pass.
ReconcileResult(nss, sec, copiers, name, plan) ==
    LET secretCopier == copiers[name]
        done == processRules([secrets |-> sec, syncs |-> <<>>], secretCopier,
                             activeNamespaces(nss), 1, plan)
    IN  IF plan.at = 0 /\ plan.kind = "get-copier"
        THEN [secrets |-> sec, pass |-> PassRecord(name, "get-failed", Absent, <<>>, 0, TRUE)]
        ELSE IF ~secretCopier.Exists
        THEN [secrets |-> sec, pass |-> PassRecord(name, "deleted", Absent, <<>>, 0, FALSE)]
        ELSE IF Len(secretCopier.Spec.Rules) = 0
        THEN [secrets |-> sec, pass |-> PassRecord(name, "no-rules", secretCopier, <<>>, 0, FALSE)]
        ELSE IF plan.list
        THEN [secrets |-> sec, pass |-> PassRecord(name, "list-failed", secretCopier, <<>>, 0, TRUE)]
        ELSE [secrets |-> done.secrets,
              pass |-> PassRecord(name, "processed", secretCopier, done.syncs,
                          RequeueAfter(secretCopier), FALSE)]

\* What r.List gives for the rule-sets of the store: no error, and the
\* rule-sets in the order of their names.
ListSecretCopiers(copiers) ==
    [err |-> FALSE,
     Items |-> SelectSeq([i \in 1..Len(CopierOrder) |-> copiers[CopierOrder[i]]],
                         LAMBDA secretCopier : secretCopier.Exists)]

\* The requests for a list of rule-sets: one with the name of each.
RequestsFor(items) == [i \in 1..Len(items) |-> items[i].Name]

RECURSIVE Flatten(_)
Flatten(seqs) == IF seqs = <<>> THEN <<>> ELSE Head(seqs) \o Flatten(Tail(seqs))

\* Variant: without the break, a request is added for every rule that
\* names the secret.
requestsPerRuleOfSourceSecret(list, key) ==
    IF list.err THEN <<>>
    ELSE Flatten([i \in 1..Len(list.Items) |->
             LET rules == SelectSeq(list.Items[i].Spec.Rules, LAMBDA rule :
                              /\ rule.SourceSecret.Name = key[2]
                              /\ rule.SourceSecret.Namespace = key[1])
             IN  [j \in 1..Len(rules) |-> list.Items[i].Name]])

\* findSecretCopiersMatchingSourceSecret from the result `list` of r.List
\* on: the loop over the rule-sets, which leaves the loop over the rules of a
\* rule-set at the first rule that names the secret at key.
requestsForSourceSecret(list, key) ==
    IF list.err THEN <<>>
    ELSE RequestsFor(SelectSeq(list.Items, LAMBDA secretCopier :
             \E i \in 1..Len(secretCopier.Spec.Rules) :
                 /\ secretCopier.Spec.Rules[i].SourceSecret.Name = key[2]
                 /\ secretCopier.Spec.Rules[i].SourceSecret.Namespace = key[1]))

\* The requests of findSecretCopiersMatchingSourceSecret for the secret at key.
findSecretCopiersMatchingSourceSecret(copiers, key) ==
    requestsForSourceSecret(ListSecretCopiers(copiers), key)

\* Variant: the rule's source namespace is tested for equality with the
\* namespace of the event instead of inequality.
findSecretCopiersMatchingSourceNamespace(copiers, namespace) ==
    SelectSeq(CopierOrder, LAMBDA name :
        /\ copiers[name].Exists
        /\ \E i \in 1..Len(copiers[name].Spec.Rules) :
              /\ copiers[name].Spec.Rules[i].SourceSecret.Namespace = namespace.Name
              /\ TargetNamespacesMatches(copiers[name].Spec.Rules[i].TargetNamespaces,
                                         namespace))

\* The object of an event on the watch of namespaces.
NamespaceEvent(namespace) == [IsNamespace |-> TRUE, Namespace |-> namespace]

\* Variant: without the comparison of the rule's source namespace with the
\* namespace of the event.
requestsForMatchedNamespace(list, object) ==
    IF ~object.IsNamespace THEN <<>>
    ELSE IF list.err THEN <<>>
    ELSE RequestsFor(SelectSeq(list.Items, LAMBDA secretCopier :
             \E i \in 1..Len(secretCopier.Spec.Rules) :
                 TargetNamespacesMatches(secretCopier.Spec.Rules[i].TargetNamespaces,
                                         object.Namespace)))

\* findSecretCopiersMatchingTargetNamespace from the conversion of the
\* object of the event on, with the result `list` of r.List.
requestsForTargetNamespace(list, object) ==
    IF ~object.IsNamespace THEN <<>>
    ELSE IF list.err THEN <<>>
    ELSE RequestsFor(SelectSeq(list.Items, LAMBDA secretCopier :
             \E i \in 1..Len(secretCopier.Spec.Rules) :
                 /\ secretCopier.Spec.Rules[i].SourceSecret.Namespace # object.Namespace.Name
                 /\ TargetNamespacesMatches(secretCopier.Spec.Rules[i].TargetNamespaces,
                                            object.Namespace)))

\* The requests of findSecretCopiersMatchingTargetNamespace for a namespace.
findSecretCopiersMatchingTargetNamespace(copiers, namespace) ==
    requestsForTargetNamespace(ListSecretCopiers(copiers), NamespaceEvent(namespace))

\* The rule-sets the watch on secrets asks a pass for, for the secrets at ks.
SecretEvents(copiers, ks) ==
    UNION {Range(findSecretCopiersMatchingSourceSecret(copiers, key)) : key \in ks}

\* The rule-sets the watch on namespaces asks a pass for.
NamespaceEvents(copiers, namespace) ==
    Range(findSecretCopiersMatchingTargetNamespace(copiers, namespace))

Queued(q) == {name \in CopierNames : q[name] # {}}

\* The work queue holds a request once; why it was added is recorded with it.
Enqueue(q, names, why) ==
    [name \in CopierNames |-> IF name \in names THEN q[name] \cup {why} ELSE q[name]]

WrittenKeys(pass) ==
    {<<pass.syncs[i].namespace, pass.syncs[i].name>> :
        i \in {j \in 1..Len(pass.syncs) : pass.syncs[j].op \in {"create", "update"}}}

MaxEvents == 3

\* Reconcile for a queued request. A request that ends with an error is
\* queued again; RequeueAfter arms the timer of the rule-set.
Reconcile(name) ==
    /\ name \in Queued(queue)
    /\ \E r \in {ReconcileResult(namespaces, secrets, secretCopiers, name, NoFaults)} :
       LET changed == {key \in Keys : r.secrets[key] # secrets[key]}
       IN  /\ secrets' = r.secrets
           /\ lastPass' = [r.pass EXCEPT !.why = queue[name], !.writers = writer]
           /\ writer' = [key \in Keys |->
                            IF key \in WrittenKeys(r.pass) THEN "engine" ELSE writer[key]]
           /\ queue' = Enqueue(
                           Enqueue([queue EXCEPT ![name] = {}],
                                   IF r.pass.err THEN {name} ELSE {}, "error"),
                           SecretEvents(secretCopiers, changed), "secret")
           /\ timers' = IF r.pass.RequeueAfter > 0 THEN timers \cup {name} ELSE timers
    /\ UNCHANGED <<namespaces, secretCopiers, nextUID, events, probe>>

\* Reconcile for a queued request when one of its calls to the store fails.
\* The failure is an event of the environment and counts as one.
ReconcileWithFault(name, plan) ==
    /\ name \in Queued(queue)
    /\ events < MaxEvents
    /\ events' = events + 1
    /\ \E r \in {ReconcileResult(namespaces, secrets, secretCopiers, name, plan)} :
       LET changed == {key \in Keys : r.secrets[key] # secrets[key]}
       IN  /\ secrets' = r.secrets
           /\ lastPass' = [r.pass EXCEPT !.why = queue[name], !.writers = writer]
           /\ writer' = [key \in Keys |->
                            IF key \in WrittenKeys(r.pass) THEN "engine" ELSE writer[key]]
           /\ queue' = Enqueue(
                           Enqueue([queue EXCEPT ![name] = {}],
                                   IF r.pass.err THEN {name} ELSE {}, "error"),
                           SecretEvents(secretCopiers, changed), "secret")
           /\ timers' = IF r.pass.RequeueAfter > 0 THEN timers \cup {name} ELSE timers
    /\ UNCHANGED <<namespaces, secretCopiers, nextUID, probe>>

\* The RequeueAfter of an earlier pass expires.
TimerFire(name) ==
    /\ name \in timers
    /\ timers' = timers \ {name}
    /\ queue' = Enqueue(queue, {name}, "timer")
    /\ UNCHANGED <<namespaces, secrets, secretCopiers, nextUID, lastPass, writer, events, probe>>

\* ---------------------------------------------------------------------
\* The environment: users and the cluster's own controllers
\* ---------------------------------------------------------------------

External ==
    /\ events < MaxEvents
    /\ events' = events + 1
    /\ lastPass' = NoPass

CreateNamespace(n) ==
    /\ External
    /\ ~namespaces[n].Exists
    /\ namespaces' = [namespaces EXCEPT ![n] = NamespaceObject(n, NamespaceActive)]
    /\ queue' = Enqueue(queue, NamespaceEvents(secretCopiers,
                                   NamespaceObject(n, NamespaceActive)), "namespace")
    /\ UNCHANGED <<secrets, secretCopiers, nextUID, timers, writer, probe>>

TerminateNamespace(n) ==
    /\ External
    /\ namespaces[n].Exists
    /\ namespaces[n].Phase = NamespaceActive
    /\ namespaces' = [namespaces EXCEPT ![n] = NamespaceObject(n, NamespaceTerminating)]
    /\ queue' = Enqueue(queue, NamespaceEvents(secretCopiers,
                                   NamespaceObject(n, NamespaceTerminating)), "namespace")
    /\ UNCHANGED <<secrets, secretCopiers, nextUID, timers, writer, probe>>

\* The namespace controller removes a terminating namespace and what is in it.
RemoveNamespace(n) ==
    /\ namespaces[n].Exists
    /\ namespaces[n].Phase = NamespaceTerminating
    /\ namespaces' = [namespaces EXCEPT ![n] = Absent]
    /\ secrets' = [key \in Keys |-> IF key[1] = n THEN Absent ELSE secrets[key]]
    /\ writer' = [key \in Keys |->
                    IF key[1] = n /\ secrets[key].Exists THEN "deleted" ELSE writer[key]]
    /\ queue' = Enqueue(
                    Enqueue(queue, NamespaceEvents(secretCopiers, namespaces[n]), "namespace"),
                    SecretEvents(secretCopiers,
                                 {key \in Keys : key[1] = n /\ secrets[key].Exists}),
                    "secret")
    /\ lastPass' = NoPass
    /\ UNCHANGED <<secretCopiers, nextUID, timers, events, probe>>

\* What a user creates at each key: source secrets in s, and in d secrets
\* that the engine did not make; nothing in e.
UserCreates(key) ==
    IF key = <<NsS, SecX>> THEN UserContents \X {<<>>}
    ELSE IF key = <<NsS, SecY>>
         THEN {[Type |-> "Opaque", Data |-> DataTwo, Labels |-> LabelsApp]} \X {<<>>}
    ELSE IF key = <<NsD, SecX>>
         THEN {[Type |-> "Opaque", Data |-> DataTwo, Labels |-> NilMap]} \X UserAnnotations
    ELSE IF key = <<NsD, SecY>>
         THEN {[Type |-> "Opaque", Data |-> DataTwo, Labels |-> NilMap]} \X {<<>>}
    ELSE {}

\* The contents a user gives an existing secret at each key.
UserUpdates(key) ==
    IF key = <<NsS, SecX>> THEN UserContents
    ELSE IF key = <<NsD, SecX>>
         THEN {[Type |-> "Opaque", Data |-> DataOne, Labels |-> NilMap],
               [Type |-> "Opaque", Data |-> DataOne, Labels |-> LabelsApp]}
    ELSE {}

UserCreateSecret(key, content, annotations) ==
    /\ External
    /\ namespaces[key[1]].Exists
    /\ namespaces[key[1]].Phase = NamespaceActive
    /\ ~secrets[key].Exists
    /\ secrets' = [secrets EXCEPT ![key] = SecretObject(content, annotations, <<>>)]
    /\ writer' = [writer EXCEPT ![key] = "user"]
    /\ queue' = Enqueue(queue, SecretEvents(secretCopiers, {key}), "secret")
    /\ UNCHANGED <<namespaces, secretCopiers, nextUID, timers, probe>>

\* A user replaces the type, data and labels of a secret.
UserUpdateSecret(key, content) ==
    /\ External
    /\ secrets[key].Exists
    /\ [Type |-> secrets[key].Type, Data |-> secrets[key].Data,
        Labels |-> secrets[key].Labels] # content
    /\ secrets' = [secrets EXCEPT ![key] =
                      SecretObject(content, secrets[key].Annotations,
                                   secrets[key].OwnerReferences)]
    /\ writer' = [writer EXCEPT ![key] = "user"]
    /\ queue' = Enqueue(queue, SecretEvents(secretCopiers, {key}), "secret")
    /\ UNCHANGED <<namespaces, secretCopiers, nextUID, timers, probe>>

UserDeleteSecret(key) ==
    /\ External
    /\ secrets[key].Exists
    /\ secrets' = [secrets EXCEPT ![key] = Absent]
    /\ writer' = [writer EXCEPT ![key] = "deleted"]
    /\ queue' = Enqueue(queue, SecretEvents(secretCopiers, {key}), "secret")
    /\ UNCHANGED <<namespaces, secretCopiers, nextUID, timers, probe>>

CreateSecretCopier(name, spec) ==
    /\ External
    /\ ~secretCopiers[name].Exists
    /\ secretCopiers' = [secretCopiers EXCEPT ![name] = SecretCopierObject(name, nextUID, spec)]
    /\ nextUID' = nextUID + 1
    /\ queue' = Enqueue(queue, {name}, "rule-set")
    /\ UNCHANGED <<namespaces, secrets, timers, writer, probe>>

UpdateSecretCopier(name, spec) ==
    /\ External
    /\ secretCopiers[name].Exists
    /\ secretCopiers[name].Spec # spec
    /\ secretCopiers' = [secretCopiers EXCEPT ![name].Spec = spec]
    /\ queue' = Enqueue(queue, {name}, "rule-set")
    /\ UNCHANGED <<namespaces, secrets, nextUID, timers, writer, probe>>

DeleteSecretCopier(name) ==
    /\ External
    /\ secretCopiers[name].Exists
    /\ secretCopiers' = [secretCopiers EXCEPT ![name] = Absent]
    /\ queue' = Enqueue(queue, {name}, "rule-set")
    /\ UNCHANGED <<namespaces, secrets, nextUID, timers, writer, probe>>

\* The owner of ref is gone: no rule-set of that name has that UID.
Dangling(ref) ==
    \A name \in CopierNames :
        ~(secretCopiers[name].Exists /\ secretCopiers[name].Name = ref.Name
                                     /\ secretCopiers[name].UID = ref.UID)

\* The cluster's garbage collector deletes a secret all of whose owners
\* are gone.
GarbageCollect(key) ==
    /\ secrets[key].Exists
    /\ Len(secrets[key].OwnerReferences) > 0
    /\ \A i \in 1..Len(secrets[key].OwnerReferences) : Dangling(secrets[key].OwnerReferences[i])
    /\ secrets' = [secrets EXCEPT ![key] = Absent]
    /\ writer' = [writer EXCEPT ![key] = "deleted"]
    /\ queue' = Enqueue(queue, SecretEvents(secretCopiers, {key}), "secret")
    /\ lastPass' = NoPass
    /\ UNCHANGED <<namespaces, secretCopiers, nextUID, timers, events, probe>>

\* The cluster at the start: the namespace e, and s and d or not; no secret
\* and no rule-set yet.
Init ==
    /\ namespaces \in {[n \in NsNames |-> IF n \in present
                                           THEN NamespaceObject(n, NamespaceActive) ELSE Absent] :
                           present \in {some \cup {NsE} : some \in SUBSET {NsS, NsD}}}
    /\ secrets = [key \in Keys |-> Absent]
    /\ secretCopiers = [name \in CopierNames |-> Absent]
    /\ nextUID = 1
    /\ queue = [name \in CopierNames |-> {}]
    /\ timers = {}
    /\ lastPass = NoPass
    /\ writer = [key \in Keys |-> "none"]
    /\ events = 0
    /\ probe = NoProbe

Next ==
    \/ \E name \in CopierNames : Reconcile(name)
    \/ \E name \in CopierNames : TimerFire(name)
    \/ \E n \in NsNames : CreateNamespace(n)
    \/ \E n \in NsNames : TerminateNamespace(n)
    \/ \E n \in NsNames : RemoveNamespace(n)
    \/ \E key \in Keys : \E c \in UserCreates(key) : UserCreateSecret(key, c[1], c[2])
    \/ \E key \in Keys : \E content \in UserUpdates(key) : UserUpdateSecret(key, content)
    \/ \E key \in Keys : UserDeleteSecret(key)
    \/ \E name \in CopierNames : \E spec \in CopierSpecs : CreateSecretCopier(name, spec)
    \/ \E name \in CopierNames : \E spec \in CopierSpecs : UpdateSecretCopier(name, spec)
    \/ \E name \in CopierNames : DeleteSecretCopier(name)
    \/ \E key \in Keys : GarbageCollect(key)

vars == <<namespaces, secrets, secretCopiers, nextUID, queue, timers, lastPass, writer,
          events, probe>>

Spec == Init /\ [][Next]_vars

\* The cluster after a rule-set with a rule of reclaim policy Retain copied
\* s/x and was deleted: the copies are left, the rule-set is gone, and the
\* next rule-set gets another UID.
InitRetained ==
    \E content \in UserContents : \E rules \in { <<RuleB>>, <<RuleD>> } :
        LET nss == [n \in NsNames |-> NamespaceObject(n, NamespaceActive)]
            sec == [key \in Keys |-> IF key = <<NsS, SecX>>
                                      THEN SecretObject(content, <<>>, <<>>) ELSE Absent]
            copiers == [name \in CopierNames |->
                           SecretCopierObject(name, 1, [Rules |-> rules, SyncPeriod |-> 0])]
            r == ReconcileResult(nss, sec, copiers, CopierC, NoFaults)
        IN  /\ namespaces = nss
            /\ secrets = r.secrets
            /\ secretCopiers = [name \in CopierNames |-> Absent]
            /\ nextUID = 2
            /\ queue = [name \in CopierNames |-> {}]
            /\ timers = {}
            /\ lastPass = NoPass
            /\ writer = [key \in Keys |->
                             IF key = <<NsS, SecX>> THEN "user"
                             ELSE IF key \in WrittenKeys(r.pass) THEN "engine" ELSE "none"]
            /\ events = 0
            /\ probe = NoProbe

SpecRetained == InitRetained /\ [][Next]_vars

\* The program with a store whose calls may fail.
NextFaults ==
    \/ Next
    \/ \E name \in CopierNames : \E plan \in FaultPlans : ReconcileWithFault(name, plan)

SpecFaults == Init /\ [][NextFaults]_vars

\* The work queue hands every pending request to Reconcile, and a pending
\* RequeueAfter expires.
Fairness ==
    \A name \in CopierNames : WF_vars(Reconcile(name)) /\ WF_vars(TimerFire(name))

SpecLive == Init /\ [][Next]_vars /\ Fairness

\* ---------------------------------------------------------------------
\* Selector evaluation: the inputs are drawn by InitSel, the actions apply
\* the selector under test to them.
\* ---------------------------------------------------------------------

MaxPatterns == 2
MaxExprs == 1

SeqsUpTo(S, n) == UNION {[1..k -> S] : k \in 0..n}

\* All maps from a subset of keys to values.
Maps(keys, values) == UNION {[ks -> values] : ks \in SUBSET keys}

ProbePatterns ==
    { <<"a">>, <<"b">>, <<"a", "*">>, <<"*">>, <<"?", "b">>,
      <<"!", "a">>, <<"!", "b">>, <<"!", "a", "*">>, <<"!", "*", "b">>, <<"!">>,
      <<"[", "a", "-", "b", "]", "b">>, <<"[", "a">> }

ProbeNames ==
    { <<>>, <<"a">>, <<"b">>, <<"a", "b">>, <<"b", "b">>, <<"b", "a">>,
      <<"!", "a">>, <<"a", "/", "b">> }

ProbeLabelKeys == {"app", "tier"}
ProbeLabelValues == { <<"a">>, <<"a", "b">>, <<"a", "*">> }
ProbeMatchValues == { <<"a">>, <<"a", "*">> }
ProbeOperators == {"In", "NotIn", "Exists", "DoesNotExist", "Gt"}
ProbeExprValues == { <<>>, << <<"a">> >>, << <<"a", "*">> >>, << <<"b">>, <<"a">> >> }

ProbeExprs ==
    [Key : ProbeLabelKeys, Operator : ProbeOperators, Values : ProbeExprValues]

NameProbes ==
    [fn : {"NameSelector.Matches"}, done : {FALSE}, out : {FALSE},
     MatchNames : SeqsUpTo(ProbePatterns, MaxPatterns), name : ProbeNames]

LabelProbes ==
    [fn : {"LabelSelector.Matches"}, done : {FALSE}, out : {FALSE},
     MatchLabels : Maps(ProbeLabelKeys, ProbeMatchValues),
     MatchExpressions : SeqsUpTo(ProbeExprs, MaxExprs),
     labels : Maps(ProbeLabelKeys, ProbeLabelValues)]

MaxUids == 2
MaxOwners == 2

\* UIDs: one is a prefix of another, one reads as a glob for the others.
ProbeUIDs == { <<>>, <<"u">>, <<"u", "d">>, <<"u", "s">>, <<"u", "*">> }

UIDProbes ==
    [fn : {"UIDSelector.Matches"}, done : {FALSE}, out : {FALSE},
     MatchUids : SeqsUpTo(ProbeUIDs, MaxUids), uid : ProbeUIDs]

OwnerA == [APIVersion |-> "v1", Kind |-> "ConfigMap", Name |-> <<"a">>, UID |-> <<"u", "d">>]

\* OwnerA and the four owners that differ from it in one field.
ProbeOwners ==
    { OwnerA,
      [OwnerA EXCEPT !.APIVersion = "v2"],
      [OwnerA EXCEPT !.Kind = "Secret"],
      [OwnerA EXCEPT !.Name = <<"b">>],
      [OwnerA EXCEPT !.UID = <<"u", "s">>] }

OwnerProbes ==
    [fn : {"OwnerSelector.Matches"}, done : {FALSE}, out : {FALSE},
     MatchOwners : SeqsUpTo(ProbeOwners, MaxOwners),
     ownerReferences : SeqsUpTo(ProbeOwners, MaxOwners)]

KubeSystem == <<"k", "u", "b", "e", "-", "s", "y", "s", "t", "e", "m">>

\* Namespace names: two that start with "kube-" and three that do not.
ProbeNamespaceNames ==
    { KubeSystem, <<"k", "u", "b", "e", "-">>, <<"k", "u", "b", "e">>, <<"d">>, <<"a">> }

ProbeNamespaces ==
    [Name : ProbeNamespaceNames,
     UID : { <<>>, <<"u", "d">> },
     OwnerReferences : { <<>>, <<OwnerA>> },
     Labels : { <<>>, [k \in {"env"} |-> <<"a">>] }]

ProbeTargetNamespaces ==
    [NameSelector :
         {[MatchNames |-> l] :
             l \in { <<>>, <<KubeSystem>>, << <<"k", "u", "b", "e", "-", "*">> >>,
                     << <<"!", "a">> >>, << <<"d">>, <<"!", "k", "u", "b", "e", "-", "*">> >>,
                     << <<"!", "k", "u", "b", "e", "*">> >> }},
     UIDSelector :
         {[MatchUids |-> l] : l \in { <<>>, << <<"u", "d">> >>, << <<"u", "s">> >> }},
     OwnerSelector :
         {[MatchOwners |-> l] :
             l \in { <<>>, <<OwnerA>>, <<[OwnerA EXCEPT !.Name = <<"b">>]>> }},
     LabelSelector :
         { [MatchLabels |-> <<>>, MatchExpressions |-> <<>>],
           [MatchLabels |-> [k \in {"env"} |-> <<"a">>], MatchExpressions |-> <<>>],
           [MatchLabels |-> [k \in {"env"} |-> <<"b">>], MatchExpressions |-> <<>>],
           [MatchLabels |-> <<>>,
            MatchExpressions |->
                <<[Key |-> "env", Operator |-> "DoesNotExist", Values |-> <<>>]>>] }]

TargetProbes ==
    [fn : {"TargetNamespaces.Matches"}, done : {FALSE}, out : {FALSE},
     selector : ProbeTargetNamespaces, namespace : ProbeNamespaces]

MaxDataKeys == 2

DataKeyOrder == <<"data-key1", "data-key2", "data-key3">>

ProbeDataKeys == {DataKeyOrder[i] : i \in 1..MaxDataKeys}

\* The data of a secret: nil, or a map (with or without entries) of byte
\* strings.
ProbeData == {NilMap} \cup {MakeMap(f) : f \in Maps(ProbeDataKeys, {"1", "2"})}

\* A source secret and a target secret that differ at most in their type and
\* data, and the rule they are compared under.
UpdateProbes ==
    [fn : {"sourceSecretHasBeenUpdated"}, done : {FALSE}, out : {FALSE},
     rule : {RuleA, RuleB},
     sourceSecret : {SecretObject([Type |-> "Opaque", Data |-> data, Labels |-> labels],
                                  <<>>, <<>>) :
                         data \in ProbeData, labels \in {NilMap, LabelsApp}},
     targetSecret : {SecretObject([Type |-> type, Data |-> data, Labels |-> NilMap],
                                  <<>>, <<>>) :
                         data \in ProbeData, type \in {"Opaque", "kubernetes.io/tls"}}]

\* Lists of rule-sets as r.List returns them: none, one, or two, each with
\* any of the rule-sets' rules; or an error.
\* RuleB for a source in the namespace d.
RuleE == [RuleB EXCEPT !.SourceSecret.Namespace = NsD]

ProbeRuleSets == RuleSets \cup { <<RuleC>>, <<RuleE>> }

ProbeCopierItems ==
    { <<>> } \cup
    { <<SecretCopierObject(CopierC, 1, [Rules |-> rules, SyncPeriod |-> 0])>> :
          rules \in ProbeRuleSets } \cup
    { <<SecretCopierObject(CopierC, 1, [Rules |-> first, SyncPeriod |-> 0]),
        SecretCopierObject(CopierOther, 2, [Rules |-> second, SyncPeriod |-> 0])>> :
          first \in ProbeRuleSets, second \in ProbeRuleSets }

ProbeCopierLists == [err : BOOLEAN, Items : ProbeCopierItems]

\* The objects of events: namespaces in either phase, and an object that is
\* not a namespace.
ProbeEventObjects ==
    { NamespaceEvent(NamespaceObject(n, phase)) :
          n \in NsNames, phase \in {NamespaceActive, NamespaceTerminating} } \cup
    { NamespaceEvent(NamespaceObject(KubeSystem, NamespaceActive)),
      [IsNamespace |-> FALSE, Namespace |-> Absent] }

SecretIndexProbes ==
    [fn : {"findSecretCopiersMatchingSourceSecret"}, done : {FALSE}, out : {FALSE},
     requests : {<<>>}, list : ProbeCopierLists, key : Keys]

NamespaceIndexProbes ==
    [fn : {"findSecretCopiersMatchingTargetNamespace"}, done : {FALSE}, out : {FALSE},
     requests : {<<>>}, list : ProbeCopierLists, object : ProbeEventObjects]

InitSel ==
    /\ probe \in NameProbes \cup LabelProbes \cup UIDProbes \cup OwnerProbes \cup TargetProbes
                  \cup UpdateProbes \cup SecretIndexProbes \cup NamespaceIndexProbes
    /\ namespaces = [n \in NsNames |-> Absent]
    /\ secrets = [key \in Keys |-> Absent]
    /\ secretCopiers = [name \in CopierNames |-> Absent]
    /\ nextUID = 1
    /\ queue = [name \in CopierNames |-> {}]
    /\ timers = {}
    /\ lastPass = NoPass
    /\ writer = [key \in Keys |-> "none"]
    /\ events = 0

ApplyNameSelector ==
    /\ probe.fn = "NameSelector.Matches"
    /\ ~probe.done
    /\ probe' = [probe EXCEPT !.done = TRUE,
                    !.out = NameSelectorMatches([MatchNames |-> probe.MatchNames], probe.name)]
    /\ UNCHANGED <<namespaces, secrets, secretCopiers, nextUID, queue, timers, lastPass,
                   writer, events>>

ApplyLabelSelector ==
    /\ probe.fn = "LabelSelector.Matches"
    /\ ~probe.done
    /\ probe' = [probe EXCEPT !.done = TRUE,
                    !.out = LabelSelectorMatches(
                                [MatchLabels |-> probe.MatchLabels,
                                 MatchExpressions |-> probe.MatchExpressions],
                                probe.labels)]
    /\ UNCHANGED <<namespaces, secrets, secretCopiers, nextUID, queue, timers, lastPass,
                   writer, events>>

ApplyUIDSelector ==
    /\ probe.fn = "UIDSelector.Matches"
    /\ ~probe.done
    /\ probe' = [probe EXCEPT !.done = TRUE,
                    !.out = UIDSelectorMatches([MatchUids |-> probe.MatchUids], probe.uid)]
    /\ UNCHANGED <<namespaces, secrets, secretCopiers, nextUID, queue, timers, lastPass,
                   writer, events>>

ApplyOwnerSelector ==
    /\ probe.fn = "OwnerSelector.Matches"
    /\ ~probe.done
    /\ probe' = [probe EXCEPT !.done = TRUE,
                    !.out = OwnerSelectorMatches([MatchOwners |-> probe.MatchOwners],
                                                 probe.ownerReferences)]
    /\ UNCHANGED <<namespaces, secrets, secretCopiers, nextUID, queue, timers, lastPass,
                   writer, events>>

ApplyTargetNamespaces ==
    /\ probe.fn = "TargetNamespaces.Matches"
    /\ ~probe.done
    /\ probe' = [probe EXCEPT !.done = TRUE,
                    !.out = TargetNamespacesMatches(probe.selector, probe.namespace)]
    /\ UNCHANGED <<namespaces, secrets, secretCopiers, nextUID, queue, timers, lastPass,
                   writer, events>>

ApplySourceSecretHasBeenUpdated ==
    /\ probe.fn = "sourceSecretHasBeenUpdated"
    /\ ~probe.done
    /\ probe' = [probe EXCEPT !.done = TRUE,
                    !.out = sourceSecretHasBeenUpdated(probe.rule, probe.sourceSecret,
                                                       probe.targetSecret)]
    /\ UNCHANGED <<namespaces, secrets, secretCopiers, nextUID, queue, timers, lastPass,
                   writer, events>>

ApplySecretIndex ==
    /\ probe.fn = "findSecretCopiersMatchingSourceSecret"
    /\ ~probe.done
    /\ probe' = [probe EXCEPT !.done = TRUE,
                    !.requests = requestsForSourceSecret(probe.list, probe.key)]
    /\ UNCHANGED <<namespaces, secrets, secretCopiers, nextUID, queue, timers, lastPass,
                   writer, events>>

ApplyNamespaceIndex ==
    /\ probe.fn = "findSecretCopiersMatchingTargetNamespace"
    /\ ~probe.done
    /\ probe' = [probe EXCEPT !.done = TRUE,
                    !.requests = requestsForTargetNamespace(probe.list, probe.object)]
    /\ UNCHANGED <<namespaces, secrets, secretCopiers, nextUID, queue, timers, lastPass,
                   writer, events>>

NextSel ==
    \/ ApplySecretIndex
    \/ ApplyNamespaceIndex
    \/ ApplySourceSecretHasBeenUpdated
    \/ ApplyNameSelector
    \/ ApplyLabelSelector
    \/ ApplyUIDSelector
    \/ ApplyOwnerSelector
    \/ ApplyTargetNamespaces

SpecSel == InitSel /\ [][NextSel]_vars

\* ---------------------------------------------------------------------
\* Properties of the selectors
\* ---------------------------------------------------------------------

IsExclude(p) == Len(p) > 0 /\ p[1] = "!"

IncludePatterns(list) == {list[i] : i \in {j \in 1..Len(list) : ~IsExclude(list[j])}}

ExcludePatterns(list) ==
    {Drop(list[i], 1) : i \in {j \in 1..Len(list) : IsExclude(list[j])}}

Reorderings(list) ==
    {[i \in 1..Len(list) |-> list[f[i]]] :
        f \in {g \in [1..Len(list) -> 1..Len(list)] : Range(g) = 1..Len(list)}}

NameProbeDone == probe.fn = "NameSelector.Matches" /\ probe.done

\* C9: for a non-empty pattern list, NameSelector.Matches(name) is true iff
\* (there is no include pattern or name glob-matches one of them) and (there
\* is no exclude pattern or name glob-matches none of them, the '!'
\* stripped); every reordering of the list gives the same result.
C9_NameSelectorResult ==
    (NameProbeDone /\ Len(probe.MatchNames) > 0) =>
        /\ probe.out =
              (/\ \/ IncludePatterns(probe.MatchNames) = {}
                  \/ \E p \in IncludePatterns(probe.MatchNames) : Match(p, probe.name)
               /\ \/ ExcludePatterns(probe.MatchNames) = {}
                  \/ \A p \in ExcludePatterns(probe.MatchNames) : ~Match(p, probe.name))
        /\ \A q \in Reorderings(probe.MatchNames) :
              NameSelectorMatches([MatchNames |-> q], probe.name) = probe.out

\* A name matched by an include and by an exclude pattern was rejected.
C9_Witness ==
    /\ NameProbeDone
    /\ \E p \in IncludePatterns(probe.MatchNames) : Match(p, probe.name)
    /\ \E p \in ExcludePatterns(probe.MatchNames) : Match(p, probe.name)
    /\ ~probe.out

LabelProbeDone == probe.fn = "LabelSelector.Matches" /\ probe.done

KnownOperators == {"In", "NotIn", "Exists", "DoesNotExist"}

ExpressionPassesAsSpecified(e, labels) ==
    IF e.Key \in DOMAIN labels
    THEN \/ e.Operator = "In" /\ \E v \in Range(e.Values) : Match(v, labels[e.Key])
         \/ e.Operator = "NotIn" /\ \A v \in Range(e.Values) : ~Match(v, labels[e.Key])
         \/ e.Operator = "Exists"
    ELSE e.Operator \in {"NotIn", "DoesNotExist"}

\* C10: for a non-empty label selector whose operators are In, NotIn, Exists
\* or DoesNotExist, LabelSelector.Matches is true iff every matchLabels entry
\* is in the label set with an equal value and every matchExpression passes:
\* key present: In iff the value glob-matches one of values, NotIn iff it
\* matches none, Exists always, DoesNotExist never; key absent: only NotIn
\* and DoesNotExist pass.
C10_LabelSelectorResult ==
    (/\ LabelProbeDone
     /\ DOMAIN probe.MatchLabels # {} \/ Len(probe.MatchExpressions) > 0
     /\ \A e \in Range(probe.MatchExpressions) : e.Operator \in KnownOperators) =>
        probe.out =
           (/\ \A k \in DOMAIN probe.MatchLabels :
                  k \in DOMAIN probe.labels /\ probe.labels[k] = probe.MatchLabels[k]
            /\ \A e \in Range(probe.MatchExpressions) :
                  ExpressionPassesAsSpecified(e, probe.labels))

\* An In expression accepted a label value by a glob that is not equal to it,
\* next to a matchLabels entry.
C10_Witness ==
    /\ LabelProbeDone
    /\ probe.out
    /\ DOMAIN probe.MatchLabels # {}
    /\ \E e \in Range(probe.MatchExpressions) :
          /\ e.Operator = "In"
          /\ e.Key \in DOMAIN probe.labels
          /\ probe.labels[e.Key] \notin Range(e.Values)

\* A label selector with the one matchExpression {key, In, [value]}.
InExpressionSelector(key, value) ==
    [MatchLabels |-> <<>>,
     MatchExpressions |-> <<[Key |-> key, Operator |-> "In", Values |-> <<value>>]>>]

\* C11: a label selector with the single matchLabels entry {k: v} (and no
\* matchExpressions) gives, for every label set, the result of the label
\* selector with the single matchExpression {key: k, operator: In, values: [v]}.
C11_MatchLabelsAsInExpression ==
    (/\ LabelProbeDone
     /\ Cardinality(DOMAIN probe.MatchLabels) = 1
     /\ probe.MatchExpressions = <<>>) =>
        \A k \in DOMAIN probe.MatchLabels :
            probe.out =
                LabelSelectorMatches(InExpressionSelector(k, probe.MatchLabels[k]),
                                     probe.labels)

UIDProbeDone == probe.fn = "UIDSelector.Matches" /\ probe.done

OwnerProbeDone == probe.fn = "OwnerSelector.Matches" /\ probe.done

TargetProbeDone == probe.fn = "TargetNamespaces.Matches" /\ probe.done

\* C12: for each of the four selectors, IsEmpty is true iff nothing is
\* configured (no pattern; no matchLabels entry and no matchExpression; no
\* UID; no owner), and an empty selector matches no candidate.
C12_EmptySelectorMatchesNothing ==
    /\ NameProbeDone =>
           /\ NameSelectorIsEmpty([MatchNames |-> probe.MatchNames]) = (probe.MatchNames = <<>>)
           /\ probe.MatchNames = <<>> => ~probe.out
    /\ LabelProbeDone =>
           /\ LabelSelectorIsEmpty([MatchLabels |-> probe.MatchLabels,
                                    MatchExpressions |-> probe.MatchExpressions])
                  = (DOMAIN probe.MatchLabels = {} /\ probe.MatchExpressions = <<>>)
           /\ (DOMAIN probe.MatchLabels = {} /\ probe.MatchExpressions = <<>>) => ~probe.out
    /\ UIDProbeDone =>
           /\ UIDSelectorIsEmpty([MatchUids |-> probe.MatchUids]) = (probe.MatchUids = <<>>)
           /\ probe.MatchUids = <<>> => ~probe.out
    /\ OwnerProbeDone =>
           /\ OwnerSelectorIsEmpty([MatchOwners |-> probe.MatchOwners])
                  = (probe.MatchOwners = <<>>)
           /\ probe.MatchOwners = <<>> => ~probe.out

\* The empty label selector was applied to a set of labels and rejected it.
C12_Witness ==
    /\ LabelProbeDone
    /\ DOMAIN probe.MatchLabels = {}
    /\ probe.MatchExpressions = <<>>
    /\ DOMAIN probe.labels # {}
    /\ ~probe.out

KubePrefix == <<"k", "u", "b", "e", "-">>

NothingConfigured(s) ==
    /\ s.NameSelector.MatchNames = <<>>
    /\ s.UIDSelector.MatchUids = <<>>
    /\ s.OwnerSelector.MatchOwners = <<>>
    /\ DOMAIN s.LabelSelector.MatchLabels = {}
    /\ s.LabelSelector.MatchExpressions = <<>>

\* C13: with an empty name selector, TargetNamespaces.Matches is false for
\* every namespace whose name starts with "kube-", whatever the other three
\* selectors are; with all four selectors empty it is true for every
\* namespace whose name does not start with "kube-".
C13_DefaultDenySystemNamespaces ==
    TargetProbeDone =>
        /\ (/\ probe.selector.NameSelector.MatchNames = <<>>
            /\ HasPrefix(probe.namespace.Name, KubePrefix)) => ~probe.out
        /\ (/\ NothingConfigured(probe.selector)
            /\ ~HasPrefix(probe.namespace.Name, KubePrefix)) => probe.out

\* kube-system was rejected by a matcher without a name selector whose UID,
\* owner and label selectors all match it.
C13_Witness ==
    /\ TargetProbeDone
    /\ probe.namespace.Name = KubeSystem
    /\ probe.selector.NameSelector.MatchNames = <<>>
    /\ probe.selector.UIDSelector.MatchUids # <<>>
    /\ probe.selector.OwnerSelector.MatchOwners # <<>>
    /\ DOMAIN probe.selector.LabelSelector.MatchLabels # {}
    /\ otherSelectorsMatch(probe.selector, probe.namespace)
    /\ ~probe.out

OnlyNameConfigured(s) ==
    /\ s.NameSelector.MatchNames # <<>>
    /\ s.UIDSelector.MatchUids = <<>>
    /\ s.OwnerSelector.MatchOwners = <<>>
    /\ DOMAIN s.LabelSelector.MatchLabels = {}
    /\ s.LabelSelector.MatchExpressions = <<>>

\* C14: with at least one pattern in the name selector, a namespace is
\* matched only if NameSelector.Matches of the configured selector accepts
\* its name, and with nothing else configured the result is exactly that of
\* NameSelector.Matches: no exclusion of kube-* is added.
C14_ConfiguredNameSelectorReplacesDefault ==
    (TargetProbeDone /\ probe.selector.NameSelector.MatchNames # <<>>) =>
        /\ probe.out => NameSelectorMatches(probe.selector.NameSelector, probe.namespace.Name)
        /\ OnlyNameConfigured(probe.selector) =>
               probe.out = NameSelectorMatches(probe.selector.NameSelector,
                                               probe.namespace.Name)

\* kube-system was matched by a name selector that holds only an exclude
\* pattern, which does not match it.
C14_Witness ==
    /\ TargetProbeDone
    /\ probe.namespace.Name = KubeSystem
    /\ OnlyNameConfigured(probe.selector)
    /\ \A i \in 1..Len(probe.selector.NameSelector.MatchNames) :
           IsExclude(probe.selector.NameSelector.MatchNames[i])
    /\ probe.out

\* The name check of the matcher: the configured name selector, or the
\* exclusion of kube-* when none is configured.
NameCheck(s, name) ==
    IF s.NameSelector.MatchNames = <<>>
    THEN ~Match(KubePrefix \o <<"*">>, name)
    ELSE NameSelectorMatches(s.NameSelector, name)

\* C15: TargetNamespaces.Matches is the conjunction of the name check, (the
\* UID selector is empty or matches the UID), (the owner selector is empty or
\* matches the owner references) and (the label selector is empty or matches
\* the labels).
C15_MatcherIsConjunction ==
    TargetProbeDone =>
        probe.out =
            (/\ \/ LabelSelectorIsEmpty(probe.selector.LabelSelector)
                \/ LabelSelectorMatches(probe.selector.LabelSelector, probe.namespace.Labels)
             /\ \/ probe.selector.OwnerSelector.MatchOwners = <<>>
                \/ OwnerSelectorMatches(probe.selector.OwnerSelector,
                                        probe.namespace.OwnerReferences)
             /\ \/ probe.selector.UIDSelector.MatchUids = <<>>
                \/ UIDSelectorMatches(probe.selector.UIDSelector, probe.namespace.UID)
             /\ NameCheck(probe.selector, probe.namespace.Name))

\* All four selectors are configured; the name, the UID and the owner pass,
\* the labels do not, and the namespace was rejected.
C15_Witness ==
    /\ TargetProbeDone
    /\ probe.selector.NameSelector.MatchNames # <<>>
    /\ NameSelectorMatches(probe.selector.NameSelector, probe.namespace.Name)
    /\ UIDSelectorMatches(probe.selector.UIDSelector, probe.namespace.UID)
    /\ OwnerSelectorMatches(probe.selector.OwnerSelector, probe.namespace.OwnerReferences)
    /\ ~LabelSelectorIsEmpty(probe.selector.LabelSelector)
    /\ ~LabelSelectorMatches(probe.selector.LabelSelector, probe.namespace.Labels)
    /\ ~probe.out

\* C16: UIDSelector.Matches(uid) is true iff uid equals an entry of
\* matchUids; an empty UID does not match a list of non-empty UIDs.
C16_UIDSelectorResult ==
    UIDProbeDone =>
        /\ probe.out = (probe.uid \in Range(probe.MatchUids))
        /\ (probe.uid = <<>> /\ <<>> \notin Range(probe.MatchUids)) => ~probe.out

\* A UID that an entry would match as a glob, and that has another entry as
\* a prefix, was rejected.
C16_Witness ==
    /\ UIDProbeDone
    /\ \E p \in Range(probe.MatchUids) : Match(p, probe.uid)
    /\ \E p \in Range(probe.MatchUids) : p # <<>> /\ HasPrefix(probe.uid, p)
    /\ ~probe.out

\* The number of the four fields on which two owners agree.
FieldsAgreeing(o, m) ==
    Cardinality({f \in {"APIVersion", "Kind", "Name", "UID"} : o[f] = m[f]})

\* C17: OwnerSelector.Matches is true iff some owner reference of the
\* candidate and some configured owner agree on apiVersion, kind, name and
\* UID; pairs that agree on three of the four fields do not make a match.
C17_OwnerSelectorResult ==
    OwnerProbeDone =>
        probe.out = (\E o \in Range(probe.ownerReferences) :
                        \E m \in Range(probe.MatchOwners) : FieldsAgreeing(o, m) = 4)

\* Candidate and selector hold two owners each, a pair of them agrees on all
\* but the UID, and the candidate was rejected.
C17_Witness ==
    /\ OwnerProbeDone
    /\ Len(probe.ownerReferences) = 2
    /\ Len(probe.MatchOwners) = 2
    /\ \E o \in Range(probe.ownerReferences) : \E m \in Range(probe.MatchOwners) :
           FieldsAgreeing(o, m) = 3 /\ o.UID # m.UID
    /\ ~probe.out

\* ---------------------------------------------------------------------
\* Properties of the sync engine and the driver
\* ---------------------------------------------------------------------

PassProcessed == lastPass.outcome = "processed"

SyncIndexes == 1..Len(lastPass.syncs)

\* The rule the i-th call of copySecretToNamespace of the last pass was for.
SyncRule(i) == lastPass.copier.Spec.Rules[lastPass.syncs[i].rule]

SyncKey(i) == <<lastPass.syncs[i].namespace, lastPass.syncs[i].name>>

SourceKey(rule) == <<rule.SourceSecret.Namespace, rule.SourceSecret.Name>>

SourceIdentity(rule) == rule.SourceSecret.Namespace \o <<"/">> \o rule.SourceSecret.Name

\* Both ownership annotations of the secret match the rule-set and the rule.
OwnedBy(secret, copierName, rule) ==
    /\ AnnCopier \in DOMAIN secret.Annotations
    /\ secret.Annotations[AnnCopier] = copierName
    /\ AnnSource \in DOMAIN secret.Annotations
    /\ secret.Annotations[AnnSource] = SourceIdentity(rule)

\* The source's labels overlaid by the rule's target labels.
Overlay(sourceLabels, ruleLabels) ==
    [k \in DOMAIN sourceLabels \cup DOMAIN ruleLabels |->
        IF k \in DOMAIN ruleLabels THEN ruleLabels[k] ELSE sourceLabels[k]]

CandidateRules == UNION {Range(rules) : rules \in RuleSets}

\* C1: a secret that exists at a rule's target and whose ownership
\* annotations do not both match the rule-set and the rule is left as it was
\* by the sync of that rule; and a secret that no rule of the pass owns is the
\* same after the pass as before it.
C1_OwnershipSafety ==
    \A i \in SyncIndexes :
        LET s == lastPass.syncs[i]
        IN  /\ (s.before.Exists /\ ~OwnedBy(s.before, lastPass.copier.Name, SyncRule(i))) =>
                   (s.after = s.before /\ s.op \notin {"create", "update"})
            /\ (/\ s.before.Exists
                /\ \A j \in SyncIndexes :
                      SyncKey(j) = SyncKey(i) =>
                          ~OwnedBy(s.before, lastPass.copier.Name, SyncRule(j))) =>
                   secrets[SyncKey(i)] = s.before

\* A pass met, at the target of a rule whose source exists and differs from
\* it, a secret whose annotations name the rule-set but another source, and
\* the secret is as it was.
C1_Witness ==
    \E i \in SyncIndexes :
        /\ lastPass.syncs[i].source.Exists
        /\ lastPass.syncs[i].before.Exists
        /\ lastPass.syncs[i].before.Data # lastPass.syncs[i].source.Data
        /\ AnnCopier \in DOMAIN lastPass.syncs[i].before.Annotations
        /\ lastPass.syncs[i].before.Annotations[AnnCopier] = lastPass.copier.Name
        /\ ~OwnedBy(lastPass.syncs[i].before, lastPass.copier.Name, SyncRule(i))
        /\ secrets[SyncKey(i)] = lastPass.syncs[i].before

\* C3: a copy that the engine creates for a rule in namespace N is at
\* (N, the rule's target name, or the source's name when that is empty), has
\* the type and data of the source secret, and has exactly the two ownership
\* annotations: the rule-set's name and "<sourceNamespace>/<sourceName>".
C3_CreatedCopyContent ==
    \A i \in SyncIndexes :
        LET s == lastPass.syncs[i]
            rule == SyncRule(i)
        IN  s.op = "create" =>
                /\ s.name = IF rule.TargetSecret.Name = <<>>
                            THEN rule.SourceSecret.Name ELSE rule.TargetSecret.Name
                /\ ~s.before.Exists
                /\ secrets[SyncKey(i)] = s.after
                /\ s.source = secrets[SourceKey(rule)]
                /\ s.after.Exists
                /\ s.after.Type = s.source.Type
                /\ s.after.Data = s.source.Data
                /\ DOMAIN s.after.Annotations = {AnnCopier, AnnSource}
                /\ s.after.Annotations[AnnCopier] = lastPass.copier.Name
                /\ s.after.Annotations[AnnSource] = SourceIdentity(rule)

\* One pass created a copy under the source's name and one under the name
\* the rule gives.
C3_Witness ==
    /\ \E i \in SyncIndexes :
          lastPass.syncs[i].op = "create" /\ SyncRule(i).TargetSecret.Name = <<>>
    /\ \E i \in SyncIndexes :
          lastPass.syncs[i].op = "create" /\ SyncRule(i).TargetSecret.Name # <<>>

\* C4: once the engine has made a copy and the source's data or labels have
\* changed, the copy's data equals the source's data and the copy's labels
\* equal the effective labels after the next completed pass.
C4_ConvergesAfterSourceUpdate ==
    PassProcessed =>
        \A i \in SyncIndexes :
            LET s == lastPass.syncs[i]
            IN  (/\ s.source.Exists
                 /\ s.before.Exists
                 /\ OwnedBy(s.before, lastPass.copier.Name, SyncRule(i))
                 /\ lastPass.writers[SyncKey(i)] = "engine") =>
                    /\ secrets[SyncKey(i)].Data = s.source.Data
                    /\ secrets[SyncKey(i)].Labels.m =
                           Overlay(s.source.Labels.m, SyncRule(i).TargetSecret.Labels)

\* C5: no call of copySecretToNamespace in a pass is for the namespace of the
\* rule's source secret, and a call for that namespace changes no secret.
C5_NoSelfCopy ==
    /\ \A i \in SyncIndexes :
          lastPass.syncs[i].namespace # SyncRule(i).SourceSecret.Namespace
    /\ \A name \in CopierNames :
          secretCopiers[name].Exists =>
              \A j \in 1..Len(secretCopiers[name].Spec.Rules) :
                  LET rule == secretCopiers[name].Spec.Rules[j]
                      r == copySecretToNamespace(secrets, secretCopiers[name], rule,
                                                 rule.SourceSecret.Namespace, NoFault)
                  IN  r.secrets = secrets /\ r.sync.op = "same-namespace"

\* A pass of a rule whose selector matches the source namespace, with that
\* namespace active and the source secret present, made a copy elsewhere.
C5_Witness ==
    \E i \in SyncIndexes :
        /\ lastPass.syncs[i].op = "create"
        /\ namespaces[SyncRule(i).SourceSecret.Namespace].Exists
        /\ namespaces[SyncRule(i).SourceSecret.Namespace].Phase = NamespaceActive
        /\ TargetNamespacesMatches(SyncRule(i).TargetNamespaces,
                                   namespaces[SyncRule(i).SourceSecret.Namespace])

\* C6: a second run of the sync of a rule for a namespace, right after the
\* first, leaves the target as the first run left it and issues neither a
\* create nor an update.
C6_SecondRunIsNoOp ==
    \A i \in SyncIndexes :
        LET s == lastPass.syncs[i]
            rule == SyncRule(i)
            afterFirst == [secrets EXCEPT ![SyncKey(i)] = s.after,
                                          ![SourceKey(rule)] = s.source]
            again == copySecretToNamespace(afterFirst, lastPass.copier, rule,
                                           s.namespace, NoFault)
        IN  /\ again.secrets = afterFirst
            /\ again.sync.op \notin {"create", "update"}

EngineStep == \E name \in CopierNames : Reconcile(name) \/ TimerFire(name)

\* C7: no step of the driver or the sync engine removes a secret, and a copy
\* whose source secret is gone is left as it is.
C7_NeverDeletes ==
    [][EngineStep =>
        \A key \in Keys :
            secrets[key].Exists =>
                /\ secrets'[key].Exists
                /\ \A name \in CopierNames : \A rule \in CandidateRules :
                      (OwnedBy(secrets[key], name, rule) /\ ~secrets[SourceKey(rule)].Exists) =>
                          secrets'[key] = secrets[key]]_vars

\* A pass found a copy it owns whose source secret is gone.
C7_Witness ==
    \E i \in SyncIndexes :
        /\ lastPass.syncs[i].op = "no-source"
        /\ lastPass.syncs[i].before.Exists
        /\ OwnedBy(lastPass.syncs[i].before, lastPass.copier.Name, SyncRule(i))
        /\ secrets[SyncKey(i)] = lastPass.syncs[i].before

\* The rule-set `name` has the rule, the rule's source secret exists, and the
\* namespace n is active, is not the source's and matches the rule's selector.
ShouldHaveCopy(name, rule, n) ==
    /\ secretCopiers[name].Exists
    /\ rule \in Range(secretCopiers[name].Spec.Rules)
    /\ namespaces[rule.SourceSecret.Namespace].Exists
    /\ secrets[SourceKey(rule)].Exists
    /\ namespaces[n].Exists
    /\ namespaces[n].Phase = NamespaceActive
    /\ n # rule.SourceSecret.Namespace
    /\ TargetNamespacesMatches(rule.TargetNamespaces, namespaces[n])

TargetKey(rule, n) ==
    <<n, IF rule.TargetSecret.Name = <<>> THEN rule.SourceSecret.Name
         ELSE rule.TargetSecret.Name>>

\* A copy is owed for the first time: the four objects exist and no secret
\* has been at the target yet.
FirstCopyOwed ==
    \E name \in CopierNames : \E rule \in CandidateRules : \E n \in NsNames :
        /\ ShouldHaveCopy(name, rule, n)
        /\ writer[TargetKey(rule, n)] = "none"

\* C2: once the source namespace, the target namespace, the rule-set and the
\* source secret all exist, whatever the order they were made in, and no
\* secret has been at the rule's target in that namespace yet, a secret is
\* there eventually (unless one of the four goes away again first).
C2_EventualCopy == FirstCopyOwed ~> ~FirstCopyOwed

\* A pass asked for by the creation of a namespace alone made a copy there.
C2_Witness ==
    \E i \in SyncIndexes :
        /\ lastPass.syncs[i].op = "create"
        /\ lastPass.why = {"namespace"}
        /\ lastPass.writers[SyncKey(i)] = "none"

\* A copy is missing under a rule-set with a positive sync period.
CopyMissing ==
    \E name \in CopierNames : \E rule \in CandidateRules : \E n \in NsNames :
        /\ ShouldHaveCopy(name, rule, n)
        /\ secretCopiers[name].Spec.SyncPeriod > 0
        /\ ~secrets[TargetKey(rule, n)].Exists

\* C8: with a positive sync period, a copy that is missing while the
\* rule-set, the source secret and the matching active namespace exist is
\* there again eventually (unless one of them goes away first).
C8_PeriodicRepair == CopyMissing ~> ~CopyMissing

\* A pass that only the timer asked for made again a copy that had been
\* deleted.
C8_Witness ==
    \E i \in SyncIndexes :
        /\ lastPass.syncs[i].op = "create"
        /\ lastPass.why = {"timer"}
        /\ lastPass.writers[SyncKey(i)] = "deleted"

\* C18: the labels the engine writes at a create or an update have the keys
\* of the source's labels and of the rule's target labels and no other; a key
\* of the rule carries the rule's value, any other key the source's value;
\* with no rule labels they are the source's labels.
C18_EffectiveLabels ==
    \A i \in SyncIndexes :
        LET s == lastPass.syncs[i]
            written == s.after.Labels.m
            sourceLabels == s.source.Labels.m
            ruleLabels == SyncRule(i).TargetSecret.Labels
        IN  s.op \in {"create", "update"} =>
                /\ DOMAIN written = DOMAIN sourceLabels \cup DOMAIN ruleLabels
                /\ \A k \in DOMAIN ruleLabels : written[k] = ruleLabels[k]
                /\ \A k \in DOMAIN sourceLabels \ DOMAIN ruleLabels :
                       written[k] = sourceLabels[k]
                /\ DOMAIN ruleLabels = {} => written = sourceLabels

\* An update wrote the labels of a copy whose rule and source give different
\* values to the same key.
C18_Witness ==
    \E i \in SyncIndexes :
        /\ lastPass.syncs[i].op = "update"
        /\ \E k \in DOMAIN lastPass.syncs[i].source.Labels.m :
               /\ k \in DOMAIN SyncRule(i).TargetSecret.Labels
               /\ SyncRule(i).TargetSecret.Labels[k] # lastPass.syncs[i].source.Labels.m[k]
               /\ secrets[SyncKey(i)].Labels.m[k] = SyncRule(i).TargetSecret.Labels[k]

\* C19: a copy is created with one owner reference, to the rule-set, when the
\* rule's reclaim policy is Delete, and with none when it is Retain; an update
\* leaves the owner references of the copy as they were, whatever the reclaim
\* policy is by then.
C19_OwnerReferenceAtCreationOnly ==
    \A i \in SyncIndexes :
        LET s == lastPass.syncs[i]
            refs == s.after.OwnerReferences
        IN  /\ s.op = "create" =>
                   IF SyncRule(i).ReclaimPolicy = ReclaimDelete
                   THEN /\ Len(refs) = 1
                        /\ refs[1].Kind = lastPass.copier.Kind
                        /\ refs[1].APIVersion = lastPass.copier.APIVersion
                        /\ refs[1].Name = lastPass.copier.Name
                        /\ refs[1].UID = lastPass.copier.UID
                   ELSE refs = <<>>
            /\ s.op = "update" => refs = s.before.OwnerReferences

\* An update under a rule whose policy is Retain by now wrote a copy that was
\* created with an owner reference, and the reference is still there.
C19_Witness ==
    \E i \in SyncIndexes :
        /\ lastPass.syncs[i].op = "update"
        /\ SyncRule(i).ReclaimPolicy = ReclaimRetain
        /\ Len(lastPass.syncs[i].before.OwnerReferences) = 1
        /\ secrets[SyncKey(i)].OwnerReferences = lastPass.syncs[i].before.OwnerReferences

\* C20: when a pass finds a copy it owns, the source exists, and the copy's
\* type, data or labels differ from the source's type, the source's data or
\* the effective labels, the sync issues an update after which the three
\* fields equal the source's type, the source's data and the effective labels.
C20_StaleCopyOverwritten ==
    \A i \in SyncIndexes :
        LET s == lastPass.syncs[i]
            effective == Overlay(s.source.Labels.m, SyncRule(i).TargetSecret.Labels)
        IN  (/\ s.source.Exists
             /\ s.before.Exists
             /\ OwnedBy(s.before, lastPass.copier.Name, SyncRule(i))
             /\ \/ s.before.Type # s.source.Type
                \/ s.before.Data # s.source.Data
                \/ s.before.Labels.m # effective) =>
                /\ s.op = "update"
                /\ s.after.Type = s.source.Type
                /\ s.after.Data = s.source.Data
                /\ s.after.Labels.m = effective

\* C21: when a pass finds a copy it owns whose type is the source's type,
\* whose data are the source's data and whose labels are the effective
\* labels, the sync issues no update for it and leaves it as it is.
C21_NoWriteWhenCurrent ==
    \A i \in SyncIndexes :
        LET s == lastPass.syncs[i]
            effective == Overlay(s.source.Labels.m, SyncRule(i).TargetSecret.Labels)
        IN  (/\ s.source.Exists
             /\ s.before.Exists
             /\ OwnedBy(s.before, lastPass.copier.Name, SyncRule(i))
             /\ s.before.Type = s.source.Type
             /\ s.before.Data = s.source.Data
             /\ s.before.Labels.m = effective) =>
                /\ s.op # "update"
                /\ s.after = s.before

UpdateProbeDone == probe.fn = "sourceSecretHasBeenUpdated" /\ probe.done

\* Both absent, or both present with the same keys and the same bytes at
\* each key.
DataEqualAsSpecified(a, b) ==
    \/ a.nil /\ b.nil
    \/ /\ ~a.nil
       /\ ~b.nil
       /\ DOMAIN a.m = DOMAIN b.m
       /\ \A key \in DOMAIN a.m \cap DOMAIN b.m : a.m[key] = b.m[key]

\* The type and the labels of the probe give no reason for an update.
OnlyDataDecides ==
    /\ probe.sourceSecret.Type = probe.targetSecret.Type
    /\ ~probe.sourceSecret.Labels.nil
    /\ \A key \in DOMAIN probe.rule.TargetSecret.Labels :
           /\ key \in DOMAIN probe.sourceSecret.Labels.m
           /\ probe.sourceSecret.Labels.m[key] = probe.rule.TargetSecret.Labels[key]

\* C22: a source and a copy whose data maps are not both absent, or both
\* present with the same keys and the same bytes at each key, are treated as
\* changed, an absent map against a present map without entries included;
\* when nothing but the data can differ, equal data maps are treated as
\* unchanged.
C22_DataComparison ==
    UpdateProbeDone =>
        /\ ~DataEqualAsSpecified(probe.sourceSecret.Data, probe.targetSecret.Data) => probe.out
        /\ OnlyDataDecides =>
               (probe.out <=>
                    ~DataEqualAsSpecified(probe.sourceSecret.Data, probe.targetSecret.Data))

\* An absent map against a present map without entries, with nothing else
\* to tell the two secrets apart, was reported as a change.
C22_Witness ==
    /\ UpdateProbeDone
    /\ OnlyDataDecides
    /\ probe.sourceSecret.Data.nil
    /\ ~probe.targetSecret.Data.nil
    /\ DOMAIN probe.targetSecret.Data.m = {}
    /\ probe.out

\* C23: a step of the engine that changes a secret that exists leaves it in
\* existence at the same name and namespace with the annotations and the
\* owner references it had (so only its type, data and labels change), and
\* every rule that owned it before the step owns it after.
C23_UpdateFrame ==
    [][EngineStep =>
        \A key \in Keys :
            (secrets[key].Exists /\ secrets'[key] # secrets[key]) =>
                /\ secrets'[key].Exists
                /\ secrets'[key].Annotations = secrets[key].Annotations
                /\ secrets'[key].OwnerReferences = secrets[key].OwnerReferences
                /\ \E i \in 1..Len(lastPass'.syncs) :
                       /\ lastPass'.syncs[i].op = "update"
                       /\ lastPass'.syncs[i].namespace = key[1]
                       /\ lastPass'.syncs[i].name = key[2]
                /\ \A name \in CopierNames : \A rule \in CandidateRules :
                       OwnedBy(secrets[key], name, rule) =>
                           OwnedBy(secrets'[key], name, rule)]_vars

\* An update changed the data of a copy that has an owner reference; the
\* copy has the annotations and the owner reference it had.
C23_Witness ==
    \E i \in SyncIndexes :
        /\ lastPass.syncs[i].op = "update"
        /\ lastPass.syncs[i].after.Data # lastPass.syncs[i].before.Data
        /\ Len(lastPass.syncs[i].before.OwnerReferences) = 1
        /\ secrets[SyncKey(i)] = lastPass.syncs[i].after
        /\ secrets[SyncKey(i)].OwnerReferences = lastPass.syncs[i].before.OwnerReferences
        /\ secrets[SyncKey(i)].Annotations = lastPass.syncs[i].before.Annotations
        /\ OwnedBy(secrets[SyncKey(i)], lastPass.copier.Name, SyncRule(i))

\* C24: a sync that finds no source secret makes no create and no update and
\* leaves what is at the target as it is; the secret at the target is the one
\* the sync found unless another sync of the pass wrote it; the pass ends
\* without an error and is not queued again for one.
C24_AbsentSourceNoOp ==
    \A i \in SyncIndexes :
        LET s == lastPass.syncs[i]
        IN  ~s.source.Exists =>
                /\ s.op \notin {"create", "update"}
                /\ s.after = s.before
                /\ (\A j \in SyncIndexes :
                        SyncKey(j) = SyncKey(i) => lastPass.syncs[j].op \notin {"create", "update"})
                       => secrets[SyncKey(i)] = s.before
                /\ PassProcessed
                /\ ~lastPass.err
                /\ "error" \notin queue[lastPass.name]

\* The source of a copy was deleted, the watch on secrets asked for a pass,
\* and the pass left the copy with its type, data, labels and annotations.
C24_Witness ==
    \E i \in SyncIndexes :
        /\ ~lastPass.syncs[i].source.Exists
        /\ lastPass.syncs[i].before.Exists
        /\ OwnedBy(lastPass.syncs[i].before, lastPass.copier.Name, SyncRule(i))
        /\ lastPass.why = {"secret"}
        /\ lastPass.writers[SourceKey(SyncRule(i))] = "deleted"
        /\ secrets[SyncKey(i)].Exists
        /\ secrets[SyncKey(i)].Type = lastPass.syncs[i].before.Type
        /\ secrets[SyncKey(i)].Data = lastPass.syncs[i].before.Data
        /\ secrets[SyncKey(i)].Labels = lastPass.syncs[i].before.Labels
        /\ secrets[SyncKey(i)].Annotations = lastPass.syncs[i].before.Annotations

\* ---------------------------------------------------------------------
\* Properties of passes whose calls to the store may fail
\* ---------------------------------------------------------------------

\* A pass, with or without a failing call: the step that leaves the record
\* of a pass and takes no timer away (the expiry of a timer takes one away
\* and every other step clears the record).
AnyPass == lastPass'.outcome # "none" /\ timers \subseteq timers'

FailedOps == {"get-source-failed", "get-target-failed", "create-failed", "update-failed"}

\* C25: a pass that processed the rules of a rule-set returns RequeueAfter
\* equal to the sync period and arms the timer when the sync period is
\* positive, and returns no requeue and arms nothing when it is zero or
\* negative, whatever its syncs did.
C25_NextPassScheduling ==
    [][(AnyPass /\ lastPass'.outcome = "processed") =>
           LET syncPeriod == secretCopiers[lastPass'.name].Spec.SyncPeriod
           IN  /\ Len(secretCopiers[lastPass'.name].Spec.Rules) > 0
               /\ ~lastPass'.err
               /\ IF syncPeriod > 0
                  THEN /\ lastPass'.RequeueAfter = syncPeriod
                       /\ timers' = timers \cup {lastPass'.name}
                  ELSE /\ lastPass'.RequeueAfter = 0
                       /\ timers' = timers]_vars

\* A pass under a negative sync period in which the store rejected a create
\* ended without a requeue and with no timer armed.
C25_Witness ==
    /\ PassProcessed
    /\ lastPass.copier.Spec.SyncPeriod < 0
    /\ \E i \in SyncIndexes : lastPass.syncs[i].op = "create-failed"
    /\ lastPass.RequeueAfter = 0
    /\ timers = {}

ListFails == [list |-> TRUE, at |-> 0, kind |-> NoFault]

\* The pass made no create and no update and armed no timer.
NothingDone ==
    /\ secrets' = secrets
    /\ timers' = timers
    /\ lastPass'.syncs = <<>>
    /\ lastPass'.RequeueAfter = 0

\* C26: a pass for a rule-set that no longer exists, or that has no rules
\* (whatever its sync period), makes no create and no update, arms no timer
\* and ends without an error; a pass whose namespace listing fails makes no
\* create and no update, arms no timer, ends with the error and is queued
\* again for it.
C26_EarlyStop ==
    [][\A name \in CopierNames :
          /\ (/\ \/ ~secretCopiers[name].Exists
                 \/ Len(secretCopiers[name].Spec.Rules) = 0
              /\ AnyPass
              /\ lastPass'.name = name
              /\ lastPass'.outcome # "get-failed") =>
                 /\ NothingDone
                 /\ ~lastPass'.err
                 /\ "error" \notin queue'[name]
          /\ (/\ secretCopiers[name].Exists
              /\ Len(secretCopiers[name].Spec.Rules) > 0
              /\ ReconcileWithFault(name, ListFails)) =>
                 /\ NothingDone
                 /\ lastPass'.err
                 /\ "error" \in queue'[name]]_vars

\* The namespace listing failed in a pass for a rule-set with a positive
\* sync period, a source secret and a namespace that awaits its copy.
C26_Witness ==
    /\ lastPass.outcome = "list-failed"
    /\ lastPass.err
    /\ lastPass.copier.Spec.SyncPeriod > 0
    /\ timers = {}
    /\ \E i \in 1..Len(lastPass.copier.Spec.Rules) : \E n \in NsNames :
           /\ ShouldHaveCopy(lastPass.name, lastPass.copier.Spec.Rules[i], n)
           /\ ~secrets[TargetKey(lastPass.copier.Spec.Rules[i], n)].Exists

WriteFailedOps == {"create-failed", "update-failed"}

\* The keys at which the store rejected a write of the pass.
FailedKeys(pass) ==
    {<<pass.syncs[i].namespace, pass.syncs[i].name>> :
        i \in {j \in 1..Len(pass.syncs) : pass.syncs[j].op \in WriteFailedOps}}

\* C27: in a pass in which the store rejects a create or an update, the
\* rejected sync leaves its target as it found it; every rule of the rule-set
\* is still synced to every active namespace that matches it; and every sync
\* for another target does, and leaves in the store, exactly what it does in
\* the same pass without the rejection.
C27_WriteFailuresIsolated ==
    [][(/\ AnyPass
        /\ lastPass'.outcome = "processed"
        /\ FailedKeys(lastPass') # {}) =>
           LET pass == lastPass'
               rules == secretCopiers[pass.name].Spec.Rules
               clean == ReconcileResult(namespaces, secrets, secretCopiers, pass.name, NoFaults)
           IN  /\ \A i \in 1..Len(pass.syncs) :
                      pass.syncs[i].op \in WriteFailedOps =>
                          pass.syncs[i].after = pass.syncs[i].before
               /\ \A key \in FailedKeys(pass) :
                      key \notin WrittenKeys(pass) => secrets'[key] = secrets[key]
               /\ \A r \in 1..Len(rules) : \A n \in NsNames :
                      (/\ namespaces[n].Exists
                       /\ namespaces[n].Phase # NamespaceTerminating
                       /\ n # rules[r].SourceSecret.Namespace
                       /\ TargetNamespacesMatches(rules[r].TargetNamespaces, namespaces[n])) =>
                          \E j \in 1..Len(pass.syncs) :
                              pass.syncs[j].rule = r /\ pass.syncs[j].namespace = n
               /\ Len(pass.syncs) = Len(clean.pass.syncs)
               /\ \A j \in 1..Len(pass.syncs) :
                      <<pass.syncs[j].namespace, pass.syncs[j].name>> \notin FailedKeys(pass) =>
                          pass.syncs[j] = clean.pass.syncs[j]
               /\ \A key \in Keys \ FailedKeys(pass) : secrets'[key] = clean.secrets[key]]_vars

\* After the copy of the first rule was made, the store rejected the create
\* of the second rule's copy in one namespace; the same pass made the second
\* rule's copy in the next namespace.
C27_Witness ==
    /\ PassProcessed
    /\ Len(lastPass.syncs) >= 3
    /\ lastPass.syncs[1].op = "create"
    /\ lastPass.syncs[2].op = "create-failed"
    /\ lastPass.syncs[3].op = "create"
    /\ lastPass.syncs[2].rule = lastPass.syncs[3].rule
    /\ lastPass.syncs[1].rule # lastPass.syncs[2].rule
    /\ ~secrets[SyncKey(2)].Exists
    /\ secrets[SyncKey(3)].Exists

ReadFailedOps == {"get-source-failed", "get-target-failed"}

\* C28: once the read of a source secret or of a target secret has failed in
\* a pass with an error other than NotFound, the pass makes no create and no
\* update in any sync after it.
C28_ReadFailureAbortsPass ==
    \A i \in SyncIndexes : \A j \in SyncIndexes :
        (i < j /\ lastPass.syncs[i].op \in ReadFailedOps) =>
            lastPass.syncs[j].op \notin {"create", "update"}

\* C29: a pass in which the creation of a copy failed has seen the failure:
\* it ends with the error as its result, and the request is queued again.
C29_CreationFailureReported ==
    (\E i \in SyncIndexes : lastPass.syncs[i].op = "create-failed") =>
        /\ lastPass.err
        /\ "error" \in queue[lastPass.name]

\* C30: a pass makes no sync for a namespace that is Terminating when the
\* pass lists the namespaces, and changes no secret in it, whether or not the
\* namespace matches a rule; every listed namespace in another phase that
\* matches a rule and is not the source's gets that rule's sync.
C30_TerminatingNamespacesSkipped ==
    [][AnyPass =>
        /\ \A n \in NsNames :
               (namespaces[n].Exists /\ namespaces[n].Phase = NamespaceTerminating) =>
                   /\ \A key \in Keys : key[1] = n => secrets'[key] = secrets[key]
                   /\ \A i \in 1..Len(lastPass'.syncs) : lastPass'.syncs[i].namespace # n
        /\ lastPass'.outcome = "processed" =>
               \A r \in 1..Len(lastPass'.copier.Spec.Rules) : \A n \in NsNames :
                   LET rule == lastPass'.copier.Spec.Rules[r]
                   IN  (/\ namespaces[n].Exists
                        /\ namespaces[n].Phase # NamespaceTerminating
                        /\ n # rule.SourceSecret.Namespace
                        /\ TargetNamespacesMatches(rule.TargetNamespaces, namespaces[n])) =>
                           \E i \in 1..Len(lastPass'.syncs) :
                               /\ lastPass'.syncs[i].rule = r
                               /\ lastPass'.syncs[i].namespace = n]_vars

\* A pass made a rule's copy in one namespace and none in a Terminating
\* namespace that matches the rule as well.
C30_Witness ==
    /\ PassProcessed
    /\ \E i \in SyncIndexes : \E n \in NsNames :
           /\ lastPass.syncs[i].op = "create"
           /\ lastPass.syncs[i].namespace # n
           /\ namespaces[n].Exists
           /\ namespaces[n].Phase = NamespaceTerminating
           /\ n # SyncRule(i).SourceSecret.Namespace
           /\ TargetNamespacesMatches(SyncRule(i).TargetNamespaces, namespaces[n])
           /\ ~secrets[TargetKey(SyncRule(i), n)].Exists
           /\ secrets[SyncKey(i)].Exists

\* ---------------------------------------------------------------------
\* Properties of the lookups of the watches
\* ---------------------------------------------------------------------

SecretIndexProbeDone == probe.fn = "findSecretCopiersMatchingSourceSecret" /\ probe.done

NamespaceIndexProbeDone == probe.fn = "findSecretCopiersMatchingTargetNamespace" /\ probe.done

NoDuplicates(requests) == Cardinality(Range(requests)) = Len(requests)

\* The rules of the rule-set whose source secret is the one at key.
RulesNaming(secretCopier, key) ==
    {rule \in Range(secretCopier.Spec.Rules) :
        rule.SourceSecret = [Name |-> key[2], Namespace |-> key[1]]}

\* C31: the lookup for a changed secret returns the names of the listed
\* rule-sets that have a rule whose source namespace and name are the
\* secret's, each once and no other; nothing when the listing fails.
C31_SecretChangeIndex ==
    SecretIndexProbeDone =>
        IF probe.list.err THEN probe.requests = <<>>
        ELSE /\ Range(probe.requests) =
                    {secretCopier.Name : secretCopier \in
                        {item \in Range(probe.list.Items) : RulesNaming(item, probe.key) # {}}}
             /\ NoDuplicates(probe.requests)

\* Of two listed rule-sets, one has two rules that name the secret and the
\* other none: the first was returned once.
C31_Witness ==
    /\ SecretIndexProbeDone
    /\ ~probe.list.err
    /\ Len(probe.list.Items) = 2
    /\ Cardinality(RulesNaming(probe.list.Items[1], probe.key)) = 2
    /\ Len(probe.list.Items[2].Spec.Rules) > 0
    /\ RulesNaming(probe.list.Items[2], probe.key) = {}
    /\ probe.requests = <<probe.list.Items[1].Name>>

\* The rules of the rule-set that match the namespace and whose source is in
\* another namespace.
RulesTargeting(secretCopier, namespace) ==
    {rule \in Range(secretCopier.Spec.Rules) :
        /\ TargetNamespacesMatches(rule.TargetNamespaces, namespace)
        /\ rule.SourceSecret.Namespace # namespace.Name}

\* C32: the lookup for a namespace returns the names of the listed rule-sets
\* that have a rule that matches the namespace and whose source namespace is
\* not the namespace, each once and no other; nothing for an object that is
\* not a namespace or when the listing fails.
C32_NamespaceChangeIndex ==
    NamespaceIndexProbeDone =>
        IF ~probe.object.IsNamespace \/ probe.list.err THEN probe.requests = <<>>
        ELSE /\ Range(probe.requests) =
                    {secretCopier.Name : secretCopier \in
                        {item \in Range(probe.list.Items) :
                            RulesTargeting(item, probe.object.Namespace) # {}}}
             /\ NoDuplicates(probe.requests)

\* Of two listed rule-sets, one has a rule that matches the namespace but has
\* its source there, and was not returned; the other has a rule that matches
\* it from another namespace, and was.
C32_Witness ==
    /\ NamespaceIndexProbeDone
    /\ probe.object.IsNamespace
    /\ ~probe.list.err
    /\ Len(probe.list.Items) = 2
    /\ \E rule \in Range(probe.list.Items[1].Spec.Rules) :
           /\ TargetNamespacesMatches(rule.TargetNamespaces, probe.object.Namespace)
           /\ rule.SourceSecret.Namespace = probe.object.Namespace.Name
    /\ RulesTargeting(probe.list.Items[2], probe.object.Namespace) # {}
    /\ probe.requests = <<probe.list.Items[2].Name>>

\* ---------------------------------------------------------------------
\* Operators of matchExpressions that the selector does not know
\* ---------------------------------------------------------------------

\* C35: a selector whose matchExpressions all have an operator other than In,
\* NotIn, Exists and DoesNotExist is not empty, and its expressions constrain
\* nothing, with their keys among the labels or not: it matches exactly the
\* label sets that its matchLabels match, so every label set when it is made
\* of such expressions only.
C35_UnknownOperatorConstrainsNothing ==
    ( /\ LabelProbeDone
      /\ Len(probe.MatchExpressions) > 0
      /\ \A i \in 1..Len(probe.MatchExpressions) :
             probe.MatchExpressions[i].Operator \notin KnownOperators )
    => /\ ~LabelSelectorIsEmpty([MatchLabels |-> probe.MatchLabels,
                                 MatchExpressions |-> probe.MatchExpressions])
       /\ probe.out = (\A key \in DOMAIN probe.MatchLabels :
                          key \in DOMAIN probe.labels
                              /\ probe.labels[key] = probe.MatchLabels[key])
       /\ (DOMAIN probe.MatchLabels = {} => probe.out)

\* A selector of one expression with an unknown operator and no matchLabels
\* matched labels that do not have the expression's key.
C35_Witness ==
    /\ LabelProbeDone
    /\ DOMAIN probe.MatchLabels = {}
    /\ Len(probe.MatchExpressions) = 1
    /\ probe.MatchExpressions[1].Operator \notin KnownOperators
    /\ probe.MatchExpressions[1].Key \notin DOMAIN probe.labels
    /\ DOMAIN probe.labels # {}
    /\ probe.out

\* ---------------------------------------------------------------------
\* Two rules of a rule-set with one target
\* ---------------------------------------------------------------------

\* Rules r1 and r2 copy different source secrets to the same name.
Competing(r1, r2) ==
    /\ SourceKey(r1) # SourceKey(r2)
    /\ TargetSecretName(r1) = TargetSecretName(r2)

\* C36: when two rules of a rule-set copy different source secrets to the
\* same target, a copy that carries the source identity of one of them keeps
\* it through every pass, within a pass and from pass to pass; the sync of the
\* other rule, when its source exists, finds it not managed, and leaves it as
\* it is in any case; and when a pass changes its data, the data are those of
\* the source it names.
C36_FirstWriterKeepsTarget ==
    [][(AnyPass /\ lastPass'.outcome = "processed") =>
        LET pass == lastPass'
            rules == pass.copier.Spec.Rules
        IN  /\ \A i \in 1..Len(pass.syncs) : \A j \in 1..Len(rules) :
                   LET sync == pass.syncs[i]
                   IN  ( /\ Competing(rules[sync.rule], rules[j])
                         /\ sync.before.Exists
                         /\ OwnedBy(sync.before, pass.name, rules[j]) )
                       => /\ sync.op \in {"no-source", "not-managed"}
                          /\ sync.source.Exists => sync.op = "not-managed"
                          /\ sync.after = sync.before
            /\ \A key \in Keys : \A j, k \in 1..Len(rules) :
                   ( /\ Competing(rules[j], rules[k])
                     /\ TargetSecretName(rules[j]) = key[2]
                     /\ secrets[key].Exists
                     /\ OwnedBy(secrets[key], pass.name, rules[j]) )
                   => /\ OwnedBy(secrets'[key], pass.name, rules[j])
                      /\ (secrets'[key].Data # secrets[key].Data =>
                              secrets'[key].Data = secrets[SourceKey(rules[j])].Data)]_vars

\* The second rule of the rule-set wrote the copy in an earlier pass, when the
\* first rule had no source; in the last pass the first rule, whose source
\* exists by now with other data, found the copy not managed.
C36_Witness ==
    /\ PassProcessed
    /\ \E i \in SyncIndexes :
           /\ lastPass.syncs[i].rule = 1
           /\ lastPass.syncs[i].op = "not-managed"
           /\ lastPass.syncs[i].source.Exists
           /\ Len(lastPass.copier.Spec.Rules) = 2
           /\ Competing(SyncRule(i), lastPass.copier.Spec.Rules[2])
           /\ OwnedBy(secrets[SyncKey(i)], lastPass.name, lastPass.copier.Spec.Rules[2])
           /\ secrets[SyncKey(i)].Data # lastPass.syncs[i].source.Data

\* ---------------------------------------------------------------------
\* Copies left behind by a deleted rule-set
\* ---------------------------------------------------------------------

\* C37: whether a pass treats the secret at a rule's target as its copy
\* depends on the two annotations alone: a secret that carries the name of the
\* rule-set and the source reference of the rule is managed, whatever the UID
\* of the rule-set and the owner references of the secret, and is updated when
\* it differs from the source; a secret that carries another name or another
\* source reference is never written.
C37_OwnershipByNameAndSource ==
    [][(AnyPass /\ lastPass'.outcome = "processed") =>
        LET pass == lastPass'
        IN  \A i \in 1..Len(pass.syncs) :
                LET sync == pass.syncs[i]
                    rule == pass.copier.Spec.Rules[sync.rule]
                IN  (sync.before.Exists /\ sync.source.Exists
                         /\ sync.op # "same-namespace") =>
                        IF OwnedBy(sync.before, pass.name, rule)
                        THEN sync.op = IF sourceSecretHasBeenUpdated(rule, sync.source,
                                                                      sync.before)
                                       THEN "update" ELSE "current"
                        ELSE sync.op = "not-managed" /\ sync.after = sync.before]_vars

\* The rule-set was created again under its name, with another UID; its pass
\* found the copy that the deleted rule-set had left, without owner
\* reference, and brought it to the data the source has by now.
C37_Witness ==
    /\ PassProcessed
    /\ lastPass.copier.UID = 2
    /\ events <= 2
    /\ \E i \in SyncIndexes :
           /\ lastPass.syncs[i].op = "update"
           /\ lastPass.writers[SyncKey(i)] = "engine"
           /\ lastPass.syncs[i].before.OwnerReferences = <<>>
           /\ lastPass.syncs[i].before.Data # lastPass.syncs[i].source.Data
           /\ secrets[SyncKey(i)].Data = lastPass.syncs[i].source.Data

\* ---------------------------------------------------------------------
\* The work of one pass
\* ---------------------------------------------------------------------

\* The calls to the store of a sync that write: none, or one.
WriteAttempts(sync) ==
    IF sync.op \in {"create", "update", "create-failed", "update-failed"} THEN 1 ELSE 0

\* C38: a pass makes one call of copySecretToNamespace for each pair of a rule
\* and a namespace, in the order of the rules, so at most as many as rules
\* times namespaces; a call creates a secret that was not there or updates one
\* that was, never both, and changes nothing otherwise; and a call whose read
\* or write failed is not made again in the pass.
C38_PassBoundedNoRetry ==
    /\ lastPass.outcome \notin {"none", "processed"} => lastPass.syncs = <<>>
    /\ PassProcessed =>
        /\ Len(lastPass.syncs) <=
               Len(lastPass.copier.Spec.Rules) * Cardinality(NsNames)
        /\ \A i, j \in SyncIndexes :
               i < j => /\ lastPass.syncs[i].rule <= lastPass.syncs[j].rule
                        /\ <<lastPass.syncs[i].rule, lastPass.syncs[i].namespace>> #
                               <<lastPass.syncs[j].rule, lastPass.syncs[j].namespace>>
        /\ \A i \in SyncIndexes :
               LET sync == lastPass.syncs[i]
               IN  /\ sync.after # sync.before => sync.op \in {"create", "update"}
                   /\ sync.op = "create" => ~sync.before.Exists /\ sync.after.Exists
                   /\ sync.op = "update" => sync.before.Exists /\ sync.after.Exists
                   /\ sync.op \in FailedOps => sync.after = sync.before
                   /\ WriteAttempts(sync) <= 1

\* The store rejected the create of a rule's copy in one namespace; the pass
\* went on to create the copy in the next namespace, and ended with the first
\* target still missing.
C38_Witness ==
    /\ PassProcessed
    /\ \E i, j \in SyncIndexes :
           /\ i < j
           /\ lastPass.syncs[i].rule = lastPass.syncs[j].rule
           /\ lastPass.syncs[i].op = "create-failed"
           /\ lastPass.syncs[j].op = "create"
           /\ ~secrets[SyncKey(i)].Exists
           /\ secrets[SyncKey(j)].Exists

\* ---------------------------------------------------------------------
\* Passes step by step: the calls to the store of copySecretToNamespace for
\* one rule and the namespace d, made by two passes that may overlap, while
\* the source secret changes. The workers' local variables are in `probe`.
\* ---------------------------------------------------------------------

Workers == {1, 2}

StepRules == {RuleA, RuleB}

StepNamespace == NsD

\* A worker between passes. pc is the call it makes next; secret and
\* targetSecret are the objects its two Gets filled; current says that the
\* store has not written the target since the worker read it (the target's
\* resourceVersion is the one the worker holds); readAt is the number of
\* changes of the source before the worker read it; solo says that no other
\* pass ran during this one; op is what the pass did.
IdleWorker ==
    [pc |-> "idle", secret |-> Absent, targetSecret |-> Absent, current |-> FALSE,
     readAt |-> 0, solo |-> FALSE, op |-> "none"]

StepRule == probe.rule

StepTargetKey == <<StepNamespace, TargetSecretName(StepRule)>>

OtherWorkers(w) == Workers \ {w}

InitSteps ==
    \E rule \in StepRules : \E content \in UserContents :
        /\ namespaces = [n \in NsNames |-> NamespaceObject(n, NamespaceActive)]
        /\ secrets = [key \in Keys |-> IF key = SourceKey(rule)
                                       THEN SecretObject(content, <<>>, <<>>) ELSE Absent]
        /\ secretCopiers = [name \in CopierNames |->
               SecretCopierObject(name, 1, [Rules |-> <<rule>>, SyncPeriod |-> 60])]
        /\ nextUID = 2
        /\ queue = [name \in CopierNames |-> {}]
        /\ timers = {}
        /\ lastPass = NoPass
        /\ writer = [key \in Keys |-> IF key = SourceKey(rule) THEN "user" ELSE "none"]
        /\ events = 0
        /\ probe = [fn |-> "copySecretToNamespace", done |-> FALSE, out |-> FALSE,
                    rule |-> rule, workers |-> [w \in Workers |-> IdleWorker]]

\* A pass reaches its call of copySecretToNamespace for the namespace.
BeginPass(w) ==
    /\ probe.workers[w].pc = "idle"
    /\ probe' = [probe EXCEPT !.workers = [v \in Workers |->
           IF v = w
           THEN [IdleWorker EXCEPT
                    !.pc = "get-source",
                    !.solo = \A u \in OtherWorkers(w) : probe.workers[u].pc = "idle"]
           ELSE [probe.workers[v] EXCEPT !.solo = @ /\ probe.workers[v].pc = "idle"]]]
    /\ UNCHANGED <<namespaces, secrets, secretCopiers, nextUID, queue, timers, lastPass,
                   writer, events>>

\* r.Get of the source secret.
GetSourceSecret(w) ==
    /\ probe.workers[w].pc = "get-source"
    /\ probe' = [probe EXCEPT !.workers[w].pc = "get-target",
                              !.workers[w].secret = secrets[SourceKey(StepRule)],
                              !.workers[w].readAt = events]
    /\ UNCHANGED <<namespaces, secrets, secretCopiers, nextUID, queue, timers, lastPass,
                   writer, events>>

\* r.Get of the target secret.
GetTargetSecret(w) ==
    /\ probe.workers[w].pc = "get-target"
    /\ probe' = [probe EXCEPT !.workers[w].pc = "write",
                              !.workers[w].targetSecret = secrets[StepTargetKey],
                              !.workers[w].current = TRUE]
    /\ UNCHANGED <<namespaces, secrets, secretCopiers, nextUID, queue, timers, lastPass,
                   writer, events>>

\* What copySecretToNamespace decides from the two objects the worker read.
StepDecision(w) ==
    copySecretToNamespace(
        [key \in Keys |-> IF key = SourceKey(StepRule) THEN probe.workers[w].secret
                          ELSE IF key = StepTargetKey THEN probe.workers[w].targetSecret
                          ELSE Absent],
        secretCopiers[CopierC], StepRule, StepNamespace, NoFault).sync

\* The rest of copySecretToNamespace: r.Create, which the store rejects when
\* the key exists, or r.Update of the object read, which the store rejects
\* when the target was written since, or no call.
WriteTargetSecret(w) ==
    /\ probe.workers[w].pc = "write"
    /\ \E sync \in {StepDecision(w)} :
       LET rejected == \/ sync.op = "create" /\ secrets[StepTargetKey].Exists
                       \/ sync.op = "update" /\ ~probe.workers[w].current
           written == sync.op \in {"create", "update"} /\ ~rejected
           op == IF rejected THEN IF sync.op = "create" THEN "create-failed"
                                  ELSE "update-failed"
                 ELSE sync.op
       IN  /\ secrets' = IF written THEN [secrets EXCEPT ![StepTargetKey] = sync.after]
                         ELSE secrets
           /\ writer' = IF written THEN [writer EXCEPT ![StepTargetKey] = "engine"]
                        ELSE writer
           /\ probe' = [probe EXCEPT !.workers = [v \in Workers |->
                  IF v = w THEN [probe.workers[v] EXCEPT !.pc = "idle", !.op = op]
                  ELSE [probe.workers[v] EXCEPT !.current = @ /\ ~written]]]
    /\ UNCHANGED <<namespaces, secretCopiers, nextUID, queue, timers, lastPass, events>>

NextSteps ==
    \/ \E w \in Workers : BeginPass(w)
    \/ \E w \in Workers : GetSourceSecret(w)
    \/ \E w \in Workers : GetTargetSecret(w)
    \/ \E w \in Workers : WriteTargetSecret(w)
    \/ \E content \in UserContents : UserUpdateSecret(<<NsS, SecX>>, content)

SpecSteps == InitSteps /\ [][NextSteps]_vars

\* Passes keep running (the sync period of the rule-set is positive), and a
\* pass that has begun makes its calls.
FairnessSteps ==
    \A w \in Workers :
        /\ WF_vars(BeginPass(w))
        /\ WF_vars(GetSourceSecret(w))
        /\ WF_vars(GetTargetSecret(w))
        /\ WF_vars(WriteTargetSecret(w))

SpecStepsLive == InitSteps /\ [][NextSteps]_vars /\ FairnessSteps

\* The copy has the type and the data of the secret, and the labels of the
\* secret overlaid by the rule's.
CopyOf(copy, secret) ==
    /\ copy.Exists
    /\ copy.Type = secret.Type
    /\ copy.Data = secret.Data
    /\ copy.Labels.m = Overlay(secret.Labels.m, StepRule.TargetSecret.Labels)

CopyHasTypeAndData(copy, secret) ==
    /\ copy.Exists
    /\ copy.Type = secret.Type
    /\ copy.Data = secret.Data

\* The step is the write step of the worker's pass.
WriteStepOf(w) == probe.workers[w].pc = "write" /\ probe'.workers[w].pc = "idle"

\* The worker has ended a pass that no other pass overlapped, no pass is
\* running, and the source has not changed since the worker read it.
FurtherPassDone(w) ==
    /\ probe.workers[w].pc = "idle"
    /\ probe.workers[w].op # "none"
    /\ probe.workers[w].solo
    /\ probe.workers[w].readAt = events
    /\ \A u \in OtherWorkers(w) : probe.workers[u].pc = "idle"

\* The first three parts of C33: a write takes effect only on the target as
\* its pass read it, and ends the chance of every write that was competing
\* with it; a rejected write changes nothing; the copy a write leaves is the
\* copy of the source as its pass read it.
RaceResolvedByStore ==
    [][\A w \in Workers :
          WriteStepOf(w) =>
              /\ probe'.workers[w].op \in {"create", "update"} =>
                     /\ probe.workers[w].current
                     /\ secrets[StepTargetKey] = probe.workers[w].targetSecret
                     /\ \A u \in OtherWorkers(w) : ~probe'.workers[u].current
                     /\ CopyOf(secrets'[StepTargetKey], probe.workers[w].secret)
                     /\ OwnedBy(secrets'[StepTargetKey], CopierC, StepRule)
              /\ probe'.workers[w].op \notin {"create", "update"} => secrets' = secrets
              /\ (~probe.workers[w].current /\ StepDecision(w).op \in {"create", "update"}) =>
                     probe'.workers[w].op \in {"create-failed", "update-failed"}]_vars

\* C33: when two passes of a rule-set act on one target, with create rejected
\* for an existing key and update rejected on a version conflict, at most one
\* of two competing writes takes effect, the other is dropped and changes
\* nothing, the copy is the one a single pass writes from the source it read,
\* and a further pass with no change in between leaves the copy equal to the
\* source: its type, its data and the effective labels.
C33_RacingPasses ==
    [][/\ \A w \in Workers :
              WriteStepOf(w) =>
                  /\ probe'.workers[w].op \in {"create", "update"} =>
                         /\ probe.workers[w].current
                         /\ secrets[StepTargetKey] = probe.workers[w].targetSecret
                         /\ \A u \in OtherWorkers(w) : ~probe'.workers[u].current
                         /\ CopyOf(secrets'[StepTargetKey], probe.workers[w].secret)
                  /\ probe'.workers[w].op \notin {"create", "update"} => secrets' = secrets
       /\ \A w \in Workers :
              FurtherPassDone(w)' =>
                  CopyOf(secrets'[StepTargetKey], secrets'[SourceKey(StepRule)])]_vars

\* The part of C33 and C34 that the comparison of labels does not touch:
\* after a further pass the copy has the type and the data of the source.
FurtherPassCopiesTypeAndData ==
    \A w \in Workers :
        FurtherPassDone(w) =>
            CopyHasTypeAndData(secrets[StepTargetKey], secrets[SourceKey(StepRule)])

\* C34: passes may write what they read before the source changed, but once
\* the source has stopped changing and passes keep running, the copy comes to
\* have the source's type, the source's data and the effective labels, and
\* keeps them.
C34_StalenessTolerated ==
    <>[]CopyOf(secrets[StepTargetKey], secrets[SourceKey(StepRule)])

\* The same for type and data alone.
TypeAndDataConverge ==
    <>[]CopyHasTypeAndData(secrets[StepTargetKey], secrets[SourceKey(StepRule)])
====
